---- MODULE Spec2Model ----
(***************************************************************************)
(* Verification model of gadd (hermannm/gadd): the change ordering engine  *)
(* (src/changes/change_ordering.rs), the ChangeList aggregate              *)
(* (src/changes/change_list.rs) and the event loop (src/event_loop.rs).    *)
(*                                                                         *)
(* The specifications of the module:                                       *)
(*   Spec          ChangeList::new followed by rescans and cursor moves    *)
(*   SpecLoop      the control loop with its input worker and fetch worker *)
(*   SpecLoopFair  SpecLoop with the control loop scheduled fairly         *)
(*   SpecLoopFetchFair  SpecLoopFair with the fetch thread scheduled too   *)
(*   SpecStage     the ChangeList operations on a small repository         *)
(*   SpecPopulate  ChangeList::new on a status scan with conflicted paths  *)
(*   SpecStatus    StatusPriorityMap::compare_statuses on three statuses   *)
(*   SpecTerminal  terminal set-up and cleanup                             *)
(*   SpecResort    the ChangeOrdering of src/change_ordering/mod.rs        *)
(*   SpecAuth      the credentials callback of with_authentication         *)
(***************************************************************************)
EXTENDS Integers, Sequences, FiniteSets, TLC

VARIABLES
    changes,                   \* ChangeList.changes: Seq of [path, status]
    index_of_selected_change,  \* ChangeList.index_of_selected_change
    ordering,                  \* ChangeOrdering.map: path -> position
    listed,                    \* history: every path that was ever in changes
    op,                        \* the operation that produced changes
    mode,                      \* renderer.mode
    fetch_status,              \* upstream.fetch_status, "None" without upstream
    event_channel,             \* Event channel (worker threads -> control loop)
    input_signals,             \* Signal channel control loop -> input thread
    fetch_signals,             \* Signal channel control loop -> fetch thread
    loop_pc,                   \* position of run_event_loop
    input_pc,                  \* position of the input thread
    fetch_pc,                  \* position of the fetch thread
    returned_by,               \* history: why run_event_loop returned
    stops_sent,                \* history: the workers run_event_loop sent Stop to
    last_handled,              \* history: the event run_event_loop handled last
    terminal,                  \* the terminal: "fullscreen" (raw, alternate screen) or "normal"
    commit_log,                \* history: the terminal state at each run of git commit
    upstream_target,           \* the repository: the commit the upstream ref points to
    commits_diff,              \* upstream.commits_diff, "None" without upstream
    index,                     \* ChangeList.index, the index in memory: path -> entry
    disk_index,                \* the repository: the index file on durable storage
    worktree,                  \* the repository: the files of the working tree
    last_op,                   \* history: the last operation that touched the repository
    edits,                     \* history: how often the working tree was edited from outside
    statuses,                  \* the repository: what repo.statuses() delivers to ChangeList::new
    conflicts,                 \* the repository: what index.conflicts() delivers
    populated,                 \* history: how populate_changes returned in ChangeList::new
    compared,                  \* history: the statuses compare_statuses was applied to, with its results
    app,                       \* run_fullscreen_application of main.rs: the terminal and how it returned
    fullscreen,                \* FullscreenRenderer: fullscreen_entered, the terminal, the last call
    resorted,                  \* history: the change set the last sort_changes was given, and what it returned
    auth                       \* with_authentication: the flags of the session, the callback's last answer

listVars == <<changes, index_of_selected_change, ordering, listed, op>>
loopVars == <<mode, fetch_status, event_channel, input_signals, fetch_signals,
              loop_pc, input_pc, fetch_pc, returned_by, stops_sent, last_handled,
              terminal, commit_log, upstream_target, commits_diff>>
vars == <<changes, index_of_selected_change, ordering, listed, op,
          mode, fetch_status, event_channel, input_signals, fetch_signals,
          loop_pc, input_pc, fetch_pc, returned_by, stops_sent, last_handled,
          terminal, commit_log, upstream_target, commits_diff,
          index, disk_index, worktree, last_op, edits,
          statuses, conflicts, populated, compared, app, fullscreen,
          resorted, auth>>
repoVars == <<index, disk_index, worktree, last_op, edits>>
classifyVars == <<statuses, conflicts, populated, compared>>
ttyVars == <<app, fullscreen>>
auxVars == <<resorted, auth>>

(***************************************************************************)
(* Bounds                                                                  *)
(***************************************************************************)
MaxSeedLen == 3       \* most entries the first status scan delivers
MaxScanLen == 2       \* most entries a later status scan delivers
MaxUpstreamCommit == 2  \* the newest commit a fetch can move the upstream ref to
MaxStatusEntries == 2   \* most entries of the status scan that is classified
MaxIndexConflicts == 2  \* most conflict entries of the index
MaxWorktreeEdits == 1   \* most edits of the working tree from outside in a session

(***************************************************************************)
(* Paths are byte sequences.  The universe holds an ASCII name, a          *)
(* two-byte UTF-8 name and two names that are not valid UTF-8.             *)
(***************************************************************************)
Paths == { <<97>>, <<195, 169>>, <<254>>, <<255>> }

REPLACEMENT_CHARACTER == 65533

\* String::from_utf8_lossy, exact for ASCII bytes, two-byte sequences and
\* bytes that can start no sequence (the byte values Paths draws from):
\* the result is the sequence of code points of the decoded string.
RECURSIVE from_utf8_lossy(_)
from_utf8_lossy(bytes) ==
    IF bytes = <<>> THEN <<>>
    ELSE LET b == Head(bytes) IN
         IF b < 128 THEN <<b>> \o from_utf8_lossy(Tail(bytes))
         ELSE IF /\ b >= 194 /\ b <= 223 /\ Len(bytes) >= 2
                 /\ bytes[2] >= 128 /\ bytes[2] <= 191
              THEN <<(b - 192) * 64 + (bytes[2] - 128)>>
                       \o from_utf8_lossy(Tail(Tail(bytes)))
              ELSE <<REPLACEMENT_CHARACTER>> \o from_utf8_lossy(Tail(bytes))

\* Ord::cmp of two integers; std::cmp::Ordering is "Less", "Equal", "Greater"
cmp_int(a, b) == IF a < b THEN "Less" ELSE IF a > b THEN "Greater" ELSE "Equal"

\* Ord::cmp of two strings (lexicographic over code points, a proper prefix
\* is less)
RECURSIVE cmp_seq(_, _)
cmp_seq(s, t) ==
    IF s = <<>> /\ t = <<>> THEN "Equal"
    ELSE IF s = <<>> THEN "Less"
    ELSE IF t = <<>> THEN "Greater"
    ELSE IF Head(s) # Head(t) THEN cmp_int(Head(s), Head(t))
    ELSE cmp_seq(Tail(s), Tail(t))

\* ChangeOrdering::compare_paths
compare_paths(path_1, path_2) ==
    cmp_seq(from_utf8_lossy(path_1), from_utf8_lossy(path_2))

(***************************************************************************)
(* Statuses.  index / worktree: 0 = no such state, 1..STATUSES_LENGTH =    *)
(* the ordinal of the state in INDEX_STATUSES / WORKTREE_STATUSES;         *)
(* conflict: the ordinal in CONFLICTING_STATUSES (0-based), -1 if none.    *)
(***************************************************************************)
STATUSES_LENGTH == 5

NonConflicting(i, w) ==
    [kind |-> "NonConflicting", index |-> i, worktree |-> w, conflict |-> -1]
Conflicting(k) ==
    [kind |-> "Conflicting", index |-> 0, worktree |-> 0, conflict |-> k]

NoPriority == -1   \* Option::None, which orders before every Some(_)

\* a mutant of StatusPriority: the single worktree-side states get the
\* ranks of the single index-side states
StatusPriorityWorktreeFromZero(status) ==
    IF status.kind = "Conflicting"
    THEN (1 + STATUSES_LENGTH) * STATUSES_LENGTH + STATUSES_LENGTH + status.conflict
    ELSE IF status.index > 0 /\ status.worktree > 0
         THEN ((status.index - 1) + 1) * STATUSES_LENGTH + (status.worktree - 1)
    ELSE IF status.index > 0 THEN status.index - 1
    ELSE IF status.worktree > 0 THEN status.worktree - 1
    ELSE NoPriority

\* StatusPriorityMap::new followed by map.get(status)
StatusPriority(status) ==
    LET worktree_base_priority == (1 + STATUSES_LENGTH) * STATUSES_LENGTH
        conflicting_priority == worktree_base_priority + STATUSES_LENGTH
    IN  IF status.kind = "Conflicting"
        THEN conflicting_priority + status.conflict
        ELSE IF status.index > 0 /\ status.worktree > 0
             THEN ((status.index - 1) + 1) * STATUSES_LENGTH + (status.worktree - 1)
        ELSE IF status.index > 0 THEN status.index - 1
        ELSE IF status.worktree > 0
             THEN worktree_base_priority + (status.worktree - 1)
        ELSE NoPriority

\* StatusPriorityMap::compare_statuses
compare_statuses(status_1, status_2) ==
    cmp_int(StatusPriority(status_1), StatusPriority(status_2))

(***************************************************************************)
(* slice::sort_by as the standard library runs it on a slice of at most    *)
(* 20 elements: an insertion sort that inserts v[i] into the sorted prefix *)
(* and calls the comparator as compare(v[i], v[j]) for j = i-1, i-2, ...   *)
(* The comparator of sort_changes pushes onto new_paths while it compares, *)
(* so the sort threads new_paths through every comparison.                 *)
(***************************************************************************)
Range(s) == { s[i] : i \in 1..Len(s) }
Range2(f) == { f[x] : x \in DOMAIN f }

\* new_paths.contains / new_paths.push of the sort_changes comparator
push_new_path(new_paths, path) ==
    IF path \in Range(new_paths) THEN new_paths ELSE Append(new_paths, path)

\* a mutant of seed_compare: the statuses alone decide
seed_compare_status_only(change_1, change_2) ==
    compare_statuses(change_1.status, change_2.status)

\* the closure given to changes.sort_by in sort_changes_and_save_ordering
seed_compare(change_1, change_2) ==
    LET ord == compare_statuses(change_1.status, change_2.status)
    IN  IF ord = "Equal" THEN compare_paths(change_1.path, change_2.path) ELSE ord

\* the closure given to changes.sort_by in sort_changes
sort_changes_compare(map, new_paths, change_1, change_2) ==
    LET known_1 == change_1.path \in DOMAIN map
        known_2 == change_2.path \in DOMAIN map
    IN  IF known_1 /\ known_2
        THEN [ordering |-> cmp_int(map[change_1.path], map[change_2.path]),
              new_paths |-> new_paths]
        ELSE IF known_1
        THEN [ordering |-> "Less",
              new_paths |-> push_new_path(new_paths, change_2.path)]
        ELSE IF known_2
        THEN [ordering |-> "Greater",
              new_paths |-> push_new_path(new_paths, change_1.path)]
        ELSE [ordering |-> compare_paths(change_1.path, change_2.path),
              new_paths |-> push_new_path(push_new_path(new_paths, change_1.path),
                                          change_2.path)]

\* the closure given to changes.sort_by in sort_changes of
\* change_ordering/mod.rs: a path without a position sorts before the
\* paths that have one
sort_changes_compare_mod(map, new_paths, change_1, change_2) ==
    LET known_1 == change_1.path \in DOMAIN map
        known_2 == change_2.path \in DOMAIN map
    IN  IF known_1 /\ known_2
        THEN [ordering |-> cmp_int(map[change_1.path], map[change_2.path]),
              new_paths |-> new_paths]
        ELSE IF known_1
        THEN [ordering |-> "Greater",
              new_paths |-> push_new_path(new_paths, change_2.path)]
        ELSE IF known_2
        THEN [ordering |-> "Less",
              new_paths |-> push_new_path(new_paths, change_1.path)]
        ELSE [ordering |-> compare_paths(change_1.path, change_2.path),
              new_paths |-> push_new_path(push_new_path(new_paths, change_1.path),
                                          change_2.path)]

\* the comparator a sort_by call was given: by = "status" for the seed,
\* "ordering" for sort_changes, "path" for new_paths.sort_by; for
\* change_ordering/mod.rs "status_mod" for the seed and "ordering_mod" for
\* sort_changes
compare(by, map, new_paths, x, y) ==
    IF by = "status" THEN [ordering |-> seed_compare(x, y), new_paths |-> new_paths]
    ELSE IF by = "status_mod"
    THEN [ordering |-> compare_statuses(x.status, y.status), new_paths |-> new_paths]
    ELSE IF by = "ordering_mod" THEN sort_changes_compare_mod(map, new_paths, x, y)
    ELSE IF by = "ordering" THEN sort_changes_compare(map, new_paths, x, y)
    ELSE [ordering |-> compare_paths(x, y), new_paths |-> new_paths]

\* insert tmp (the former v[j+1]) into the sorted prefix v[1..j]
RECURSIVE insert_tail(_, _, _, _, _, _)
insert_tail(by, map, v, tmp, j, new_paths) ==
    IF j = 0 THEN [v |-> [v EXCEPT ![1] = tmp], new_paths |-> new_paths]
    ELSE LET r == compare(by, map, new_paths, tmp, v[j])
         IN  IF r.ordering = "Less"
             THEN insert_tail(by, map, [v EXCEPT ![j + 1] = v[j]], tmp, j - 1,
                              r.new_paths)
             ELSE [v |-> [v EXCEPT ![j + 1] = tmp], new_paths |-> r.new_paths]

RECURSIVE insertion_sort(_, _, _, _, _)
insertion_sort(by, map, v, i, new_paths) ==
    IF i > Len(v) THEN [v |-> v, new_paths |-> new_paths]
    ELSE LET s == insert_tail(by, map, v, v[i], i - 1, new_paths)
         IN  insertion_sort(by, map, s.v, i + 1, s.new_paths)

\* slice::sort_by: [v |-> the sorted slice, new_paths |-> what the comparator pushed]
sort_by(by, map, v) == insertion_sort(by, map, v, 2, <<>>)

(***************************************************************************)
(* ChangeOrdering                                                          *)
(***************************************************************************)
EmptyMap == [p \in {} |-> 0]

\* index (from 0) of the last occurrence of x in s, as for (i, _) in iter().enumerate()
LastIndexOf(s, x) ==
    (CHOOSE i \in 1..Len(s) : s[i] = x /\ \A j \in (i + 1)..Len(s) : s[j] # x) - 1

\* a mutant of ordering_length: fresh positions restart at 0
ordering_length_zero(map) == 0

\* let ordering_length = self.map.len()
ordering_length(map) == Cardinality(DOMAIN map)

\* for (i, change) in changes.iter().enumerate() { self.map.insert(path, i) }
save_ordering(map, sorted) ==
    [p \in DOMAIN map \cup { c.path : c \in Range(sorted) } |->
        IF p \in { c.path : c \in Range(sorted) }
        THEN LastIndexOf([i \in 1..Len(sorted) |-> sorted[i].path], p)
        ELSE map[p]]

\* ChangeOrdering::sort_changes_and_save_ordering: [changes, map] afterwards
sort_changes_and_save_ordering(map, chs) ==
    LET sorted == sort_by("status", map, chs).v
    IN  [changes |-> sorted, map |-> save_ordering(map, sorted)]

\* ChangeOrdering::sort_changes: [changes, map] afterwards
sort_changes(map, chs) ==
    LET s == sort_by("ordering", map, chs)
        sorted_new == sort_by("path", map, s.new_paths).v
    IN  [changes |-> s.v,
         map |-> IF s.new_paths = <<>> THEN map
                 ELSE [p \in DOMAIN map \cup Range(sorted_new) |->
                          IF p \in Range(sorted_new)
                          THEN ordering_length(map) + LastIndexOf(sorted_new, p)
                          ELSE map[p]]]

\* Vec::reverse
ReverseSeq(v) == [i \in 1..Len(v) |-> v[Len(v) + 1 - i]]

\* self.map.values().min().cloned().unwrap_or(-1)
min_priority(map) ==
    IF DOMAIN map = {} THEN -1
    ELSE CHOOSE m \in Range2(map) : \A x \in Range2(map) : m <= x

\* ChangeOrdering::sort_changes_and_save_ordering of change_ordering/mod.rs:
\* [changes, map] afterwards
sort_changes_and_save_ordering_mod(chs) ==
    LET sorted == sort_by("status_mod", EmptyMap, ReverseSeq(chs)).v
    IN  [changes |-> sorted, map |-> save_ordering(EmptyMap, sorted)]

\* ChangeOrdering::sort_changes of change_ordering/mod.rs: [changes, map]
\* afterwards and the count it returns; the new paths get the priorities
\* min, min - 1, ... in ascending order of their names
sort_changes_mod(map, chs) ==
    LET s == sort_by("ordering_mod", map, chs)
        sorted_new == sort_by("path", map, s.new_paths).v
    IN  [changes |-> s.v,
         map |-> IF s.new_paths = <<>> THEN map
                 ELSE [p \in DOMAIN map \cup Range(sorted_new) |->
                          IF p \in Range(sorted_new)
                          THEN min_priority(map) - LastIndexOf(sorted_new, p)
                          ELSE map[p]],
         returned |-> Len(s.new_paths)]

(***************************************************************************)
(* ChangeList                                                              *)
(***************************************************************************)
\* the statuses the scans of the model deliver: index-modified and
\* worktree-modified
ScanStatuses == { NonConflicting(1, 0), NonConflicting(0, 1) }

Change(path, status) == [path |-> path, status |-> status]

\* what populate_changes leaves in self.changes: every scanned path once,
\* at most max_len of them
Scans(max_len) ==
    UNION { { s \in [1..n -> { Change(p, st) : p \in Paths, st \in ScanStatuses }] :
                \A i, j \in 1..n : i # j => s[i].path # s[j].path }
            : n \in 0..max_len }

PathsOf(chs) == { c.path : c \in Range(chs) }

\* ChangeList::select_default_change, from index_of_selected_change = 0
RECURSIVE first_worktree_change_index(_, _)
first_worktree_change_index(chs, i) ==
    IF i > Len(chs) THEN -1
    ELSE IF chs[i].status.kind = "NonConflicting" /\ chs[i].status.worktree > 0
         THEN i - 1
         ELSE first_worktree_change_index(chs, i + 1)

\* a mutant of select_default_change: the cursor stays on the first entry
select_default_change_first(chs) == 0

select_default_change(chs) ==
    IF chs = <<>> THEN 0
    ELSE IF \E i \in 1..Len(chs) : chs[i].status.kind = "Conflicting"
    THEN (CHOOSE i \in 1..Len(chs) :
              /\ chs[i].status.kind = "Conflicting"
              /\ \A j \in 1..(i - 1) : chs[j].status.kind # "Conflicting") - 1
    ELSE IF first_worktree_change_index(chs, 1) >= 0
    THEN first_worktree_change_index(chs, 1)
    ELSE 0

\* a mutant of clamp_selection: the cursor is left where it was
clamp_selection_never(selected, changes_length) == selected

\* the cursor after refresh_changes has sorted a list of changes_length entries
clamp_selection(selected, changes_length) ==
    IF changes_length = 0 THEN 0
    ELSE IF changes_length <= selected THEN changes_length - 1
    ELSE selected

Event(type, key) == [type |-> type, key |-> key]
NoEvent == Event("none", "none")

\* Commits are numbered along one line of history, each the child of the one
\* before.  current_branch.object_id and upstream.object_id are the targets
\* get_current_branch read from HEAD and from the upstream branch.
LocalObjectId == 1
UpstreamObjectId == 1

\* repo.graph_ahead_behind on a line of history: the commits reachable from
\* one and not from the other
graph_ahead_behind(local_object_id, upstream_object_id) ==
    [ahead |-> IF local_object_id > upstream_object_id
               THEN local_object_id - upstream_object_id ELSE 0,
     behind |-> IF upstream_object_id > local_object_id
                THEN upstream_object_id - local_object_id ELSE 0]

\* UpstreamCommitsDiff::from_repo
from_repo(local_object_id, upstream_object_id) ==
    graph_ahead_behind(local_object_id, upstream_object_id)

\* Event::FetchComplete(commits_diff)
FetchComplete(diff) == [type |-> "FetchComplete", key |-> "none", commits_diff |-> diff]

(***************************************************************************)
(* The repository as the ChangeList sees it through git2: the tree of      *)
(* HEAD, the index (in memory and on durable storage) and the files of the *)
(* working tree.  An entry is a blob id with a file mode; the blob id 0    *)
(* stands for "no entry" and "no file".                                    *)
(***************************************************************************)
\* the files of the repository, in the order a status scan lists them:
\* "a" and "ab" are committed, "n" is not
RepoPaths == << <<97>>, <<97, 98>>, <<110>> >>

Entry(id, filemode) == [id |-> id, mode |-> filemode]
Absent == Entry(0, 0)
Committed == Entry(1, 33188)   \* blob 1, mode 0o100644
Edited == Entry(2, 33261)      \* blob 2, mode 0o100755

\* the tree repo.head().peel_to_tree() delivers
HeadTree ==
    [p \in Range(RepoPaths) |-> IF p \in { <<97>>, <<97, 98>> } THEN Committed ELSE Absent]

\* the ordinals (from 1) of the states in INDEX_STATUSES and WORKTREE_STATUSES
INDEX_MODIFIED == 1
INDEX_NEW == 2
INDEX_DELETED == 5
WT_MODIFIED == 1
WT_NEW == 2
WT_DELETED == 5

\* the state git2 reports for one side of a path: `old` is the entry of the
\* older side (HEAD for the index side, the index for the worktree side)
side_status(old, new, modified, added, deleted) ==
    IF old = new THEN 0
    ELSE IF old = Absent THEN added
    ELSE IF new = Absent THEN deleted
    ELSE modified

\* status_entry.status() of a path
status_of(idx, wt, path) ==
    NonConflicting(
        side_status(HeadTree[path], idx[path], INDEX_MODIFIED, INDEX_NEW, INDEX_DELETED),
        side_status(idx[path], wt[path], WT_MODIFIED, WT_NEW, WT_DELETED))

\* get_statuses followed by populate_changes: one Change per path that has a
\* state, in path order
RECURSIVE populate_changes(_, _, _)
populate_changes(idx, wt, i) ==
    IF i > Len(RepoPaths) THEN <<>>
    ELSE LET status == status_of(idx, wt, RepoPaths[i])
         IN  (IF status = NonConflicting(0, 0) THEN <<>>
              ELSE << Change(RepoPaths[i], status) >>)
                 \o populate_changes(idx, wt, i + 1)

get_statuses(idx, wt) == populate_changes(idx, wt, 1)

\* a mutant of is_wt_deleted: no status counts as a deletion
is_wt_deleted_never(status) == FALSE

\* status.is_wt_deleted() and status.is_index_new()
is_wt_deleted(status) == status.kind = "NonConflicting" /\ status.worktree = WT_DELETED
is_index_new(status) == status.kind = "NonConflicting" /\ status.index = INDEX_NEW

\* path.is_file()
is_file(wt, path) == wt[path] # Absent

\* a pathspec that ends in '*' (byte 42) matches every path that starts with
\* what is before the '*'
pathspec_matches(pathspec, path) ==
    LET prefix == SubSeq(pathspec, 1, Len(pathspec) - 1)
    IN  Len(path) >= Len(prefix) /\ SubSeq(path, 1, Len(prefix)) = prefix

\* a mutant of remove_path: the entry stays
remove_path_keeps(idx, path) == idx

\* index.remove_path, index.add_path, index.remove_all, index.add_all
remove_path(idx, path) == [idx EXCEPT ![path] = Absent]
add_path(idx, wt, path) == [idx EXCEPT ![path] = wt[path]]
remove_all(idx, pathspec) ==
    [p \in DOMAIN idx |-> IF pathspec_matches(pathspec, p) THEN Absent ELSE idx[p]]
add_all(idx, wt, pathspec) ==
    [p \in DOMAIN idx |-> IF pathspec_matches(pathspec, p) THEN wt[p] ELSE idx[p]]

\* the place of a path in the order of the scan
PathOrdinal(path) == CHOOSE i \in 1..Len(RepoPaths) : RepoPaths[i] = path

\* index.add_all that fails at the path with ordinal fail_at: it goes through
\* the paths in order and returns at the first error; what it has added
\* stays in the index in memory
add_all_failing(idx, wt, pathspec, fail_at) ==
    [ok |-> FALSE,
     index |-> [p \in DOMAIN idx |->
                   IF pathspec_matches(pathspec, p) /\ PathOrdinal(p) < fail_at
                   THEN wt[p] ELSE idx[p]],
     at |-> fail_at]

\* Change::stage: the index afterwards
stage(change, idx, wt) ==
    LET pathspec == Append(change.path, 42)
    IN  IF is_file(wt, change.path)
        THEN IF is_wt_deleted(change.status)
             THEN remove_path(idx, change.path)
             ELSE add_path(idx, wt, change.path)
        ELSE IF is_wt_deleted(change.status)
             THEN remove_all(idx, pathspec)
             ELSE add_all(idx, wt, pathspec)

\* tree_entry.filemode() as u32: the file modes of git2 are positive i32
\* values, which the cast leaves as they are
as_u32(filemode) ==
    IF filemode >= 0 THEN filemode
    ELSE (filemode + 2147483647) + 1 + 2147483647 + 1

\* a mutant of new_index_entry: the mode is zeroed like the other fields
new_index_entry_mode_zeroed(id, filemode) == Entry(id, 0)

\* new_index_entry: of the fields it sets, the model keeps id and mode
new_index_entry(id, filemode) == Entry(id, filemode)

\* Change::unstage: [ok |-> it returned Ok, index |-> the index afterwards];
\* repository_head_tree.get_path fails for a path the tree does not have
unstage(change, idx) ==
    IF is_index_new(change.status)
    THEN [ok |-> TRUE, index |-> remove_path(idx, change.path)]
    ELSE IF HeadTree[change.path] = Absent
    THEN [ok |-> FALSE, index |-> idx]
    ELSE [ok |-> TRUE,
          index |-> [idx EXCEPT ![change.path] =
                        new_index_entry(HeadTree[change.path].id,
                                        as_u32(HeadTree[change.path].mode))]]

\* the loop of unstage_all_changes from the i-th change on; a failure of
\* the environment hits the change fail_at (0: none does)
\* a mutant of unstage_each: a failure gives back the index as it was
unstage_each_rolled_back(chs, i, idx, fail_at) ==
    IF fail_at \in i..Len(chs) THEN [ok |-> FALSE, index |-> idx, at |-> fail_at]
    ELSE [ok |-> TRUE, index |-> idx, at |-> 0]

RECURSIVE unstage_each(_, _, _, _)
unstage_each(chs, i, idx, fail_at) ==
    IF i > Len(chs) THEN [ok |-> TRUE, index |-> idx, at |-> 0]
    ELSE IF i = fail_at THEN [ok |-> FALSE, index |-> idx, at |-> i]
    ELSE LET unstaged == unstage(chs[i], idx)
         IN  IF unstaged.ok THEN unstage_each(chs, i + 1, unstaged.index, fail_at)
             ELSE [ok |-> FALSE, index |-> unstaged.index, at |-> i]

\* a mutant of index_write: nothing reaches the durable storage
index_write_nothing(in_memory, on_disk) == on_disk

\* self.index.write(): the index on durable storage afterwards
index_write(in_memory, on_disk) == in_memory

\* the record of an operation: the entry it was applied to (none for the
\* operations on all changes), whether the listed status of that entry was
\* the status the repository had, how the operation returned and the steps
\* it went through
NoPath == <<>>
Op(name, change, fresh, result, steps) ==
    [name |-> name, path |-> change.path, status |-> change.status,
     fresh |-> fresh, result |-> result, steps |-> steps, failed_at |-> 0]
NoOp == Op("none", Change(NoPath, NonConflicting(0, 0)), TRUE, "Ok", <<>>)

\* the repository while it is not operated on
RepoAtRest ==
    /\ index = HeadTree
    /\ disk_index = HeadTree
    /\ worktree = HeadTree
    /\ last_op = NoOp
    /\ edits = 0

(***************************************************************************)
(* Classification of the status scan: populate_changes with the conflict   *)
(* entries of the index.  A status entry of the scan is a path with its    *)
(* status and the CONFLICTED flag; a conflict entry of the index says      *)
(* which of ancestor, our and their it holds, all under one path.          *)
(***************************************************************************)
StatusEntry(path, status, conflicted) ==
    [path |-> path, status |-> status, conflicted |-> conflicted]

IndexConflict(path, ancestor, our, their) ==
    [path |-> path, ancestor |-> ancestor, our |-> our, their |-> their]

\* the pairs [ours, theirs] in the order of their ranks
CONFLICTING_STATUSES ==
    << <<"Unmerged", "Unmerged">>, <<"Unmerged", "Deleted">>,
       <<"Deleted", "Unmerged">>, <<"Deleted", "Deleted">>,
       <<"Added", "Added">>, <<"Added", "Unmerged">>,
       <<"Unmerged", "Added">> >>

\* Status::Conflicting { ours, theirs }
ConflictingOf(ours, theirs) ==
    Conflicting((CHOOSE k \in 1..Len(CONFLICTING_STATUSES) :
                     CONFLICTING_STATUSES[k] = <<ours, theirs>>) - 1)

\* a mutant of conflict_status: a side that is missing counts as Unmerged
conflict_status_all_unmerged(ancestor, our, their) ==
    [valid |-> ancestor \/ our \/ their, ours |-> "Unmerged", theirs |-> "Unmerged"]

\* the match on (&conflict.ancestor, &conflict.our, &conflict.their)
conflict_status(ancestor, our, their) ==
    IF ancestor /\ our /\ their
    THEN [valid |-> TRUE, ours |-> "Unmerged", theirs |-> "Unmerged"]
    ELSE IF ancestor /\ our /\ ~their
    THEN [valid |-> TRUE, ours |-> "Unmerged", theirs |-> "Deleted"]
    ELSE IF ancestor /\ ~our /\ their
    THEN [valid |-> TRUE, ours |-> "Deleted", theirs |-> "Unmerged"]
    ELSE IF ancestor /\ ~our /\ ~their
    THEN [valid |-> TRUE, ours |-> "Deleted", theirs |-> "Deleted"]
    ELSE IF ~ancestor /\ our /\ their
    THEN [valid |-> TRUE, ours |-> "Added", theirs |-> "Added"]
    ELSE IF ~ancestor /\ our /\ ~their
    THEN [valid |-> TRUE, ours |-> "Added", theirs |-> "Unmerged"]
    ELSE IF ~ancestor /\ ~our /\ their
    THEN [valid |-> TRUE, ours |-> "Unmerged", theirs |-> "Added"]
    ELSE [valid |-> FALSE, ours |-> "Unmerged", theirs |-> "Unmerged"]

\* conflict_path: the path of the first of ancestor, our, their that is there
has_conflict_path(conflict) == conflict.ancestor \/ conflict.our \/ conflict.their

\* Vec::remove of the first element equal to x
RemoveFirst(s, x) ==
    LET i == CHOOSE k \in 1..Len(s) : s[k] = x /\ \A j \in 1..(k - 1) : s[j] # x
    IN  SubSeq(s, 1, i - 1) \o SubSeq(s, i + 1, Len(s))

\* the result of populate_changes: Ok or the error, with self.changes as
\* it is left
Populated(error, chs) == [ok |-> error = "none", error |-> error, changes |-> chs]

\* the loop of populate_conflicting_changes from the i-th conflict on, and
\* the check after it
RECURSIVE populate_conflicting_changes(_, _, _, _)
populate_conflicting_changes(chs, conflicting_change_paths, index_conflicts, i) ==
    IF i > Len(index_conflicts)
    THEN IF conflicting_change_paths # <<>>
         THEN Populated("no_index_entry", chs)
         ELSE Populated("none", chs)
    ELSE LET conflict == index_conflicts[i]
             classified == conflict_status(conflict.ancestor, conflict.our,
                                           conflict.their)
         IN  IF ~has_conflict_path(conflict)
             THEN Populated("no_conflict_path", chs)
             ELSE IF conflict.path \notin Range(conflicting_change_paths)
             THEN Populated("no_change_path", chs)
             ELSE IF ~classified.valid
             THEN Populated("invalid_conflict", chs)
             ELSE populate_conflicting_changes(
                      Append(chs, Change(conflict.path,
                                         ConflictingOf(classified.ours,
                                                       classified.theirs))),
                      RemoveFirst(conflicting_change_paths, conflict.path),
                      index_conflicts, i + 1)

\* the loop of populate_changes over the status entries
NonConflictingChanges(scan) ==
    LET not_conflicted(e) == ~e.conflicted
        kept == SelectSeq(scan, not_conflicted)
    IN  [i \in 1..Len(kept) |-> Change(kept[i].path, kept[i].status)]
ConflictingChangePaths(scan) ==
    LET conflicted(e) == e.conflicted
        kept == SelectSeq(scan, conflicted)
    IN  [i \in 1..Len(kept) |-> kept[i].path]

\* ChangeList::populate_changes on the scan and the conflicts of the index
populate_from_scan(scan, index_conflicts) ==
    IF ConflictingChangePaths(scan) # <<>>
    THEN populate_conflicting_changes(NonConflictingChanges(scan),
                                      ConflictingChangePaths(scan),
                                      index_conflicts, 1)
    ELSE Populated("none", NonConflictingChanges(scan))

\* nothing was classified or compared
NotPopulated == [ok |-> FALSE, error |-> "not_run", changes |-> <<>>]
NotCompared == [statuses |-> <<>>, orderings |-> <<>>]
\* the four steps of the terminal cleanup, in the order they are attempted
CleanupSteps == <<"leave_alternate_screen", "show_cursor", "flush", "disable_raw_mode">>

\* the terminal as a program left it: not raw, main screen
Tty(raw_mode, alternate_screen) ==
    [raw_mode |-> raw_mode, alternate_screen |-> alternate_screen]

\* run_fullscreen_application was not called; the renderer is as
\* FullscreenRenderer::new returns it
AppNotRun ==
    [result |-> "not_run", failed |-> "none", tty |-> Tty(FALSE, FALSE),
     attempted |-> <<>>, printed |-> <<>>]
RendererNew ==
    [fullscreen_entered |-> FALSE, tty |-> Tty(FALSE, FALSE), call |-> "new",
     result |-> "Ok", attempted |-> <<>>]
TtyAtRest ==
    /\ app = AppNotRun
    /\ fullscreen = RendererNew

\* sort_changes was not called; no authentication session was opened
NotResorted == [given |-> <<>>, returned |-> 0, calls |-> 0]
NoSession == [open |-> FALSE]
AuxAtRest ==
    /\ resorted = NotResorted
    /\ auth = NoSession

ClassifyAtRest ==
    /\ statuses = <<>>
    /\ conflicts = <<>>
    /\ populated = NotPopulated
    /\ compared = NotCompared


\* the event-loop state, at rest while only the ChangeList is exercised
LoopAtRest ==
    /\ mode = "ChangeList"
    /\ fetch_status = "None"
    /\ event_channel = <<>>
    /\ input_signals = <<>>
    /\ fetch_signals = <<>>
    /\ loop_pc = "not_started"
    /\ input_pc = "not_started"
    /\ fetch_pc = "not_started"
    /\ returned_by = "none"
    /\ stops_sent = {}
    /\ last_handled = NoEvent
    /\ terminal = "normal"
    /\ commit_log = <<>>
    /\ upstream_target = UpstreamObjectId
    /\ commits_diff = "None"

\* ChangeList::new on a repository whose first scan is `scan`
ChangeListNew(scan) ==
    LET seeded == sort_changes_and_save_ordering(EmptyMap, scan)
    IN  /\ changes = seeded.changes
        /\ ordering = seeded.map
        /\ index_of_selected_change = select_default_change(seeded.changes)
        /\ listed = PathsOf(scan)
        /\ op = "new"

Init ==
    /\ \E scan \in Scans(MaxSeedLen) : ChangeListNew(scan)
    /\ LoopAtRest
    /\ RepoAtRest
    /\ ClassifyAtRest
    /\ TtyAtRest
    /\ AuxAtRest

\* ChangeList::refresh_changes when the status scan delivers `scan`
refresh_changes(scan) ==
    LET sorted == sort_changes(ordering, scan)
    IN  /\ changes' = sorted.changes
        /\ ordering' = sorted.map
        /\ index_of_selected_change' =
               clamp_selection(index_of_selected_change, Len(sorted.changes))
        /\ listed' = listed \cup PathsOf(scan)
        /\ op' = "refresh_changes"

\* main returns right after ChangeList::new when there are no changes: the
\* list is operated on only when the first scan found some
HasChangesAtStart == ~(op = "new" /\ changes = <<>>)

RefreshChanges ==
    /\ HasChangesAtStart
    /\ \E scan \in Scans(MaxScanLen) : refresh_changes(scan)
    /\ UNCHANGED loopVars
    /\ UNCHANGED <<repoVars, classifyVars, ttyVars, auxVars>>

\* ChangeList::select_next_change
select_next_change ==
    /\ index_of_selected_change' =
           IF Len(changes) > 0 /\ index_of_selected_change < Len(changes) - 1
           THEN index_of_selected_change + 1
           ELSE index_of_selected_change
    /\ UNCHANGED <<changes, ordering, listed, op>>

SelectNextChange ==
    /\ HasChangesAtStart
    /\ select_next_change
    /\ UNCHANGED loopVars
    /\ UNCHANGED <<repoVars, classifyVars, ttyVars, auxVars>>

\* ChangeList::select_previous_change
select_previous_change ==
    /\ index_of_selected_change' =
           IF index_of_selected_change > 0
           THEN index_of_selected_change - 1
           ELSE index_of_selected_change
    /\ UNCHANGED <<changes, ordering, listed, op>>

SelectPreviousChange ==
    /\ HasChangesAtStart
    /\ select_previous_change
    /\ UNCHANGED loopVars
    /\ UNCHANGED <<repoVars, classifyVars, ttyVars, auxVars>>

Next ==
    \/ RefreshChanges
    \/ SelectNextChange
    \/ SelectPreviousChange

Spec == Init /\ [][Next]_vars

(***************************************************************************)
(* Claims about the change ordering (specification Spec)                   *)
(***************************************************************************)
\* position (from 1) of a listed path in a list of changes
IndexOfPath(chs, path) == CHOOSE i \in 1..Len(chs) : chs[i].path = path

IsInjective(f) == \A a, b \in DOMAIN f : f[a] = f[b] => a = b

MaxPosition(map) == CHOOSE m \in Range2(map) : \A n \in Range2(map) : n <= m

\* C1: two paths that are listed after one rescan and after the next rescan
\* have the same relative order in the list both times.
C1_RescanKeepsRelativeOrder ==
    [][(op = "refresh_changes" /\ op' = "refresh_changes") =>
         \A p, q \in PathsOf(changes) \cap PathsOf(changes') :
             (IndexOfPath(changes, p) < IndexOfPath(changes, q))
                 <=> (IndexOfPath(changes', p) < IndexOfPath(changes', q))]_vars

\* C2: the path -> position map only grows: a recorded path keeps its
\* position and is never removed, newly recorded paths get the positions
\* maximum + 1, maximum + 2, ... and no two paths share a position.
C2_Step ==
    /\ \A p \in DOMAIN ordering : p \in DOMAIN ordering' /\ ordering'[p] = ordering[p]
    /\ \A q \in DOMAIN ordering' \ DOMAIN ordering :
           \A p \in DOMAIN ordering : ordering'[q] > ordering[p]
    /\ (DOMAIN ordering # {} /\ DOMAIN ordering' # DOMAIN ordering) =>
           { ordering'[q] : q \in DOMAIN ordering' \ DOMAIN ordering } =
               (MaxPosition(ordering) + 1) ..
               (MaxPosition(ordering) + Cardinality(DOMAIN ordering' \ DOMAIN ordering))
    /\ IsInjective(ordering')

C2_MapOnlyGrows == IsInjective(ordering) /\ [][C2_Step]_vars

\* C2 witness: a resort has recorded a path (more paths are recorded than a
\* seed can record) and a recorded path is gone from the list.
C2_Witness ==
    /\ op = "refresh_changes"
    /\ Cardinality(DOMAIN ordering) > MaxSeedLen
    /\ DOMAIN ordering \ PathsOf(changes) # {}
    /\ \E c \in Range(changes) : ordering[c.path] = MaxPosition(ordering)

\* C3: after a resort every brand-new path (never listed before) comes after
\* every path that was listed before, and the brand-new paths are in
\* ascending order of their paths.
C3_NewPathsAfterKnownPaths ==
    [][op' = "refresh_changes" =>
         \A i, j \in 1..Len(changes') :
             /\ (changes'[i].path \in listed /\ changes'[j].path \notin listed)
                    => i < j
             /\ (i < j /\ changes'[i].path \notin listed /\ changes'[j].path \notin listed)
                    => cmp_seq(from_utf8_lossy(changes'[i].path),
                               from_utf8_lossy(changes'[j].path)) # "Greater"]_vars

\* C4: when sort_changes has returned, every path of the list has a recorded
\* position.
C4_EveryListedPathHasPosition ==
    op = "refresh_changes" => PathsOf(changes) \subseteq DOMAIN ordering

\* C5: a resort of the same set of changes as the list holds (after a seed or
\* after a resort) leaves the list order as it is and records no path.
C5_ResortIsIdempotent ==
    [][(op' = "refresh_changes" /\ Range(changes') = Range(changes)) =>
         (changes' = changes /\ ordering' = ordering)]_vars

Keys == { "Up", "Down", "Space", "r", "a", "u", "f", "h", "Enter", "Esc",
          "CtrlC", "other" }

\* the lists the event loop is exercised on: the first scan, and what the
\* rescan after a stage or unstage command delivers
LoopSeedScan ==
    << Change(<<97>>, NonConflicting(0, 1)), Change(<<254>>, NonConflicting(1, 0)) >>
LoopScans ==
    { <<>>,
      << Change(<<97>>, NonConflicting(1, 0)) >>,
      << Change(<<97>>, NonConflicting(1, 0)), Change(<<254>>, NonConflicting(1, 0)) >> }

\* run_event_loop has returned: its event receiver and signal senders are dropped
LoopReturned == loop_pc = "returned"

InitLoop ==
    /\ ChangeListNew(LoopSeedScan)
    /\ mode = "ChangeList"
    /\ fetch_status \in { "Fetching", "None" }
    /\ event_channel = <<>>
    /\ input_signals = <<>>
    /\ fetch_signals = <<>>
    /\ loop_pc = "recv"
    /\ input_pc = "read"
    /\ fetch_pc = "start"
    /\ returned_by = "none"
    /\ stops_sent = {}
    /\ last_handled = NoEvent
    /\ terminal = "fullscreen"
    /\ commit_log = <<>>
    /\ upstream_target = UpstreamObjectId
    /\ commits_diff = IF fetch_status = "None" THEN "None"
                      ELSE from_repo(LocalObjectId, UpstreamObjectId)
    /\ RepoAtRest
    /\ ClassifyAtRest
    /\ TtyAtRest
    /\ AuxAtRest

\* the renderer is dropped: leaving the fullscreen is attempted, and a failure
\* leaves the terminal as it is
DropRenderer == { "normal", terminal }

\* ---- handle_user_input --------------------------------------------------
\* Each Handle* is the effect of one match arm on the ChangeList, the
\* renderer mode, the upstream and the fetch signal channel, with `result`
\* what handle_user_input returns: "continue" for Ok(Some(renderer)), "exit"
\* for Ok(None), "error" for Err ("send_error" for the Err of the failed send
\* of the refetch).  renderer.render can fail at every call.

\* (Up, _) and (Down, _)
HandleSelect(key, result) ==
    /\ UNCHANGED commit_log
    /\ IF key = "Up" THEN select_previous_change ELSE select_next_change
    /\ result \in { "continue", "error" }
    /\ UNCHANGED <<mode, fetch_status, fetch_signals>>

\* (Char(' '), _), (Char('r'), _), (Char('a'), _), (Char('u'), _): the
\* ChangeList operation fails, or is the no-op on an empty list of the
\* two operations on the selected change, or ends in refresh_changes
HandleStageOrUnstage(key, result) ==
    /\ UNCHANGED commit_log
    /\ \/ /\ result = "error"
          /\ UNCHANGED listVars
       \/ /\ key \in { "Space", "r" } /\ changes = <<>>
          /\ result \in { "continue", "error" }
          /\ UNCHANGED listVars
       \/ /\ ~(key \in { "Space", "r" } /\ changes = <<>>)
          /\ result \in { "continue", "error" }
          /\ \E scan \in LoopScans : refresh_changes(scan)
    /\ UNCHANGED <<mode, fetch_status, fetch_signals>>

\* a mutant of HandleRefetch: the refetch does not look at the fetch status
HandleRefetchAlways(key, result) ==
    /\ UNCHANGED commit_log
    /\ IF fetch_status # "None"
       THEN /\ fetch_status' = "Fetching"
            /\ \/ /\ result = "error"
                  /\ UNCHANGED fetch_signals
               \/ /\ fetch_pc \notin { "stopped", "panicked" }
                  /\ result = "continue"
                  /\ fetch_signals' = Append(fetch_signals, "Continue")
               \/ /\ fetch_pc \in { "stopped", "panicked" }
                  /\ result = "send_error"
                  /\ UNCHANGED fetch_signals
       ELSE /\ result = "continue"
            /\ UNCHANGED <<fetch_status, fetch_signals>>
    /\ UNCHANGED <<mode, changes, index_of_selected_change, ordering, listed, op>>

\* (Char('f'), _): with an upstream that is not being fetched, the status
\* becomes Fetching, then the render can fail ("error"), then Continue is
\* sent, which fails when the fetch thread has returned and dropped its
\* receiver ("send_error")
HandleRefetch(key, result) ==
    /\ UNCHANGED commit_log
    /\ IF fetch_status \notin { "None", "Fetching" }
       THEN /\ fetch_status' = "Fetching"
            /\ \/ /\ result = "error"
                  /\ UNCHANGED fetch_signals
               \/ /\ fetch_pc \notin { "stopped", "panicked" }
                  /\ result = "continue"
                  /\ fetch_signals' = Append(fetch_signals, "Continue")
               \/ /\ fetch_pc \in { "stopped", "panicked" }
                  /\ result = "send_error"
                  /\ UNCHANGED fetch_signals
       ELSE /\ result = "continue"
            /\ UNCHANGED <<fetch_status, fetch_signals>>
    /\ UNCHANGED <<mode, changes, index_of_selected_change, ordering, listed, op>>

\* (Char('h'), _) in the change list, (Esc, _) in the help screen
HandleSwitchMode(key, result) ==
    /\ UNCHANGED commit_log
    /\ mode' = IF mode = "ChangeList" THEN "HelpScreen" ELSE "ChangeList"
    /\ result \in { "continue", "error" }
    /\ UNCHANGED <<fetch_status, fetch_signals,
                   changes, index_of_selected_change, ordering, listed, op>>

\* (Enter, _): the renderer is dropped (terminal' is the terminal after the
\* drop), then git commit is run, which can fail to start
HandleCommit(key, result) ==
    /\ result \in { "exit", "error" }
    /\ commit_log' = IF result = "exit" THEN Append(commit_log, terminal')
                     ELSE commit_log
    /\ UNCHANGED <<mode, fetch_status, fetch_signals,
                   changes, index_of_selected_change, ordering, listed, op>>

\* (Esc, _) | (Char('c'), CONTROL) in the change list, the latter in the help screen
HandleQuit(key, result) ==
    /\ UNCHANGED commit_log
    /\ result = "exit"
    /\ UNCHANGED <<mode, fetch_status, fetch_signals,
                   changes, index_of_selected_change, ordering, listed, op>>

\* _ => {}
HandleNothing(key, result) ==
    /\ UNCHANGED commit_log
    /\ result = "continue"
    /\ UNCHANGED <<mode, fetch_status, fetch_signals,
                   changes, index_of_selected_change, ordering, listed, op>>

\* a mutant of handle_user_input: the keys of the change list act in the
\* help screen as well
handle_user_input_in_any_mode(key, result) ==
    CASE key \in { "Up", "Down" } -> HandleSelect(key, result)
      [] key \in { "Space", "r", "a", "u" } -> HandleStageOrUnstage(key, result)
      [] key = "f" -> HandleRefetch(key, result)
      [] key = "h" /\ mode = "ChangeList" -> HandleSwitchMode(key, result)
      [] key = "Enter" -> HandleCommit(key, result)
      [] key = "Esc" /\ mode = "HelpScreen" -> HandleSwitchMode(key, result)
      [] key \in { "Esc", "CtrlC" } -> HandleQuit(key, result)
      [] OTHER -> HandleNothing(key, result)

handle_user_input(key, result) ==
    IF mode = "ChangeList"
    THEN CASE key \in { "Up", "Down" } -> HandleSelect(key, result)
           [] key \in { "Space", "r", "a", "u" } -> HandleStageOrUnstage(key, result)
           [] key = "f" -> HandleRefetch(key, result)
           [] key = "h" -> HandleSwitchMode(key, result)
           [] key = "Enter" -> HandleCommit(key, result)
           [] key \in { "Esc", "CtrlC" } -> HandleQuit(key, result)
           [] OTHER -> HandleNothing(key, result)
    ELSE CASE key = "Esc" -> HandleSwitchMode(key, result)
           [] key = "CtrlC" -> HandleQuit(key, result)
           [] OTHER -> HandleNothing(key, result)

\* why run_event_loop returns when handle_user_input returned `result`
ReturnReason(key, result) ==
    IF result = "error" THEN "handler_error"
    ELSE IF result = "send_error" THEN "refetch_send_error"
    ELSE IF key = "Enter" THEN "commit"
    ELSE "quit"

\* ---- run_event_loop -----------------------------------------------------
\* a mutant of LoopUserInput: no input is handled while a fetch is running
LoopUserInputAfterFetch ==
    /\ loop_pc = "recv"
    /\ fetch_pc \notin { "fetching", "hung" }
    /\ event_channel # <<>>
    /\ Head(event_channel).type = "UserInput"
    /\ \E result \in { "continue", "exit", "error", "send_error" } :
           /\ terminal' \in IF result = "continue" THEN { terminal } ELSE DropRenderer
           /\ handle_user_input(Head(event_channel).key, result)
           /\ loop_pc' = IF result = "continue" THEN "send_continue" ELSE "stop_input"
           /\ returned_by' = IF result = "continue" THEN returned_by
                             ELSE ReturnReason(Head(event_channel).key, result)
    /\ event_channel' = Tail(event_channel)
    /\ last_handled' = Head(event_channel)
    /\ UNCHANGED <<input_signals, input_pc, fetch_pc, stops_sent>>
    /\ UNCHANGED <<upstream_target, commits_diff>>
    /\ UNCHANGED <<repoVars, classifyVars, ttyVars, auxVars>>

\* Event::UserInput: event_receiver.recv() and handle_user_input, which
\* returns the renderer or drops it
LoopUserInput ==
    /\ loop_pc = "recv"
    /\ event_channel # <<>>
    /\ Head(event_channel).type = "UserInput"
    /\ \E result \in { "continue", "exit", "error", "send_error" } :
           /\ terminal' \in IF result = "continue" THEN { terminal } ELSE DropRenderer
           /\ handle_user_input(Head(event_channel).key, result)
           /\ loop_pc' = IF result = "continue" THEN "send_continue" ELSE "stop_input"
           /\ returned_by' = IF result = "continue" THEN returned_by
                             ELSE ReturnReason(Head(event_channel).key, result)
    /\ event_channel' = Tail(event_channel)
    /\ last_handled' = Head(event_channel)
    /\ UNCHANGED <<input_signals, input_pc, fetch_pc, stops_sent>>
    /\ UNCHANGED <<upstream_target, commits_diff>>
    /\ UNCHANGED <<repoVars, classifyVars, ttyVars, auxVars>>

\* input_signal_sender.must_send(Signal::Continue); continue
LoopSendContinue ==
    /\ loop_pc = "send_continue"
    /\ input_signals' = Append(input_signals, "Continue")
    /\ loop_pc' = "recv"
    /\ UNCHANGED <<mode, fetch_status, event_channel, fetch_signals, input_pc,
                   fetch_pc, returned_by, stops_sent, last_handled>>
    /\ UNCHANGED listVars
    /\ UNCHANGED <<repoVars, classifyVars, ttyVars, auxVars>>
    /\ UNCHANGED <<terminal, commit_log, upstream_target, commits_diff>>

\* stop_input_thread()
LoopStopInputThread ==
    /\ loop_pc = "stop_input"
    /\ input_signals' = Append(input_signals, "Stop")
    /\ stops_sent' = stops_sent \cup { "input" }
    /\ loop_pc' = "stop_fetch"
    /\ UNCHANGED <<mode, fetch_status, event_channel, fetch_signals, input_pc,
                   fetch_pc, returned_by, last_handled>>
    /\ UNCHANGED listVars
    /\ UNCHANGED <<repoVars, classifyVars, ttyVars, auxVars>>
    /\ UNCHANGED <<terminal, commit_log, upstream_target, commits_diff>>

\* stop_fetch_thread(); return.  handle_user_input has dropped the renderer
\* already; after Event::UserInputError the return drops it.
LoopStopFetchThread ==
    /\ loop_pc = "stop_fetch"
    /\ fetch_signals' = Append(fetch_signals, "Stop")
    /\ stops_sent' = stops_sent \cup { "fetch" }
    /\ loop_pc' = "returned"
    /\ terminal' \in IF returned_by = "input_error" THEN DropRenderer ELSE { terminal }
    /\ UNCHANGED <<mode, fetch_status, event_channel, input_signals, input_pc,
                   fetch_pc, returned_by, last_handled>>
    /\ UNCHANGED listVars
    /\ UNCHANGED <<repoVars, classifyVars, ttyVars, auxVars>>
    /\ UNCHANGED <<commit_log, upstream_target, commits_diff>>

\* Event::UserInputError: the fetch thread alone is stopped
LoopUserInputError ==
    /\ loop_pc = "recv"
    /\ event_channel # <<>>
    /\ Head(event_channel).type = "UserInputError"
    /\ event_channel' = Tail(event_channel)
    /\ last_handled' = Head(event_channel)
    /\ returned_by' = "input_error"
    /\ loop_pc' = "stop_fetch"
    /\ UNCHANGED <<mode, fetch_status, input_signals, fetch_signals, input_pc,
                   fetch_pc, stops_sent>>
    /\ UNCHANGED listVars
    /\ UNCHANGED <<repoVars, classifyVars, ttyVars, auxVars>>
    /\ UNCHANGED <<terminal, commit_log, upstream_target, commits_diff>>

\* a mutant of LoopFetchEvent: the two fetch events set each other's status
LoopFetchEventSwapped ==
    /\ loop_pc = "recv"
    /\ event_channel # <<>>
    /\ Head(event_channel).type \in { "FetchComplete", "FetchError" }
    /\ event_channel' = Tail(event_channel)
    /\ last_handled' = Head(event_channel)
    /\ IF fetch_status # "None"
       THEN /\ fetch_status' = IF Head(event_channel).type = "FetchComplete"
                               THEN "Failed" ELSE "Complete"
            /\ commits_diff' = IF Head(event_channel).type = "FetchComplete"
                               THEN Head(event_channel).commits_diff
                               ELSE commits_diff
            /\ \/ /\ loop_pc' = "recv"
                  /\ UNCHANGED <<returned_by, terminal>>
               \/ /\ loop_pc' = "returned"
                  /\ returned_by' = "render_error"
                  /\ terminal' \in DropRenderer
       ELSE UNCHANGED <<fetch_status, commits_diff, loop_pc, returned_by, terminal>>
    /\ UNCHANGED <<mode, input_signals, fetch_signals, input_pc, fetch_pc, stops_sent>>
    /\ UNCHANGED listVars
    /\ UNCHANGED <<repoVars, classifyVars, ttyVars, auxVars>>
    /\ UNCHANGED <<commit_log, upstream_target>>

\* a mutant of LoopFetchEvent: the fetch events are received and dropped
LoopFetchEventDropped ==
    /\ loop_pc = "recv"
    /\ event_channel # <<>>
    /\ Head(event_channel).type \in { "FetchComplete", "FetchError" }
    /\ event_channel' = Tail(event_channel)
    /\ last_handled' = Head(event_channel)
    /\ UNCHANGED <<fetch_status, commits_diff, loop_pc, returned_by, terminal>>
    /\ UNCHANGED <<mode, input_signals, fetch_signals, input_pc, fetch_pc, stops_sent>>
    /\ UNCHANGED listVars
    /\ UNCHANGED <<repoVars, classifyVars, ttyVars, auxVars>>
    /\ UNCHANGED <<commit_log, upstream_target>>

\* Event::FetchComplete and Event::FetchError: with an upstream the status
\* (and, on FetchComplete, commits_diff) is set and the list rendered; a
\* failed render returns from the loop, which drops the renderer
LoopFetchEvent ==
    /\ loop_pc = "recv"
    /\ event_channel # <<>>
    /\ Head(event_channel).type \in { "FetchComplete", "FetchError" }
    /\ event_channel' = Tail(event_channel)
    /\ last_handled' = Head(event_channel)
    /\ IF fetch_status # "None"
       THEN /\ fetch_status' = IF Head(event_channel).type = "FetchComplete"
                               THEN "Complete" ELSE "Failed"
            /\ commits_diff' = IF Head(event_channel).type = "FetchComplete"
                               THEN Head(event_channel).commits_diff
                               ELSE commits_diff
            /\ \/ /\ loop_pc' = "recv"
                  /\ UNCHANGED <<returned_by, terminal>>
               \/ /\ loop_pc' = "returned"
                  /\ returned_by' = "render_error"
                  /\ terminal' \in DropRenderer
       ELSE UNCHANGED <<fetch_status, commits_diff, loop_pc, returned_by, terminal>>
    /\ UNCHANGED <<mode, input_signals, fetch_signals, input_pc, fetch_pc, stops_sent>>
    /\ UNCHANGED listVars
    /\ UNCHANGED <<repoVars, classifyVars, ttyVars, auxVars>>
    /\ UNCHANGED <<commit_log, upstream_target>>

\* ---- the input thread ---------------------------------------------------
\* a mutant of InputThreadKeyPress: the thread reads on without waiting
InputThreadKeyPressNoWait ==
    /\ input_pc = "read"
    /\ Len(event_channel) < 3
    /\ IF LoopReturned
       THEN /\ input_pc' = "panicked"
            /\ UNCHANGED event_channel
       ELSE /\ \E key \in Keys :
                  event_channel' = Append(event_channel, Event("UserInput", key))
            /\ input_pc' = "read"
    /\ UNCHANGED <<mode, fetch_status, input_signals, fetch_signals, loop_pc,
                   fetch_pc, returned_by, stops_sent, last_handled>>
    /\ UNCHANGED listVars
    /\ UNCHANGED <<repoVars, classifyVars, ttyVars, auxVars>>
    /\ UNCHANGED <<terminal, commit_log, upstream_target, commits_diff>>

\* event::read() delivers a key press: it is sent as Event::UserInput and
\* the thread waits for a signal.  must_send panics without a receiver.
InputThreadKeyPress ==
    /\ input_pc = "read"
    /\ IF LoopReturned
       THEN /\ input_pc' = "panicked"
            /\ UNCHANGED event_channel
       ELSE /\ \E key \in Keys :
                  event_channel' = Append(event_channel, Event("UserInput", key))
            /\ input_pc' = "wait_signal"
    /\ UNCHANGED <<mode, fetch_status, input_signals, fetch_signals, loop_pc,
                   fetch_pc, returned_by, stops_sent, last_handled>>
    /\ UNCHANGED listVars
    /\ UNCHANGED <<repoVars, classifyVars, ttyVars, auxVars>>
    /\ UNCHANGED <<terminal, commit_log, upstream_target, commits_diff>>

\* event::read() fails: Event::UserInputError is sent and the thread returns
InputThreadReadError ==
    /\ input_pc = "read"
    /\ IF LoopReturned
       THEN /\ input_pc' = "panicked"
            /\ UNCHANGED event_channel
       ELSE /\ event_channel' = Append(event_channel, Event("UserInputError", "none"))
            /\ input_pc' = "stopped"
    /\ UNCHANGED <<mode, fetch_status, input_signals, fetch_signals, loop_pc,
                   fetch_pc, returned_by, stops_sent, last_handled>>
    /\ UNCHANGED listVars
    /\ UNCHANGED <<repoVars, classifyVars, ttyVars, auxVars>>
    /\ UNCHANGED <<terminal, commit_log, upstream_target, commits_diff>>

\* signal_receiver.must_recv(): Continue reads on, Stop ends the thread, a
\* channel that is empty and has lost its sender panics
InputThreadSignal ==
    /\ input_pc = "wait_signal"
    /\ \/ /\ input_signals # <<>>
          /\ input_pc' = IF Head(input_signals) = "Continue" THEN "read" ELSE "stopped"
          /\ input_signals' = Tail(input_signals)
       \/ /\ input_signals = <<>>
          /\ LoopReturned
          /\ input_pc' = "panicked"
          /\ UNCHANGED input_signals
    /\ UNCHANGED <<mode, fetch_status, event_channel, fetch_signals, loop_pc,
                   fetch_pc, returned_by, stops_sent, last_handled>>
    /\ UNCHANGED listVars
    /\ UNCHANGED <<repoVars, classifyVars, ttyVars, auxVars>>
    /\ UNCHANGED <<terminal, commit_log, upstream_target, commits_diff>>

\* ---- the fetch thread ---------------------------------------------------
\* where the fetch thread is after it has entered a cycle of its loop: at
\* must_recv without an upstream, else inside remote.fetch, in a call that
\* returns ("fetching") or in one that never does ("hung")
FetchCycleEntered ==
    IF fetch_status = "None" THEN { "wait_signal" } ELSE { "fetching", "hung" }

\* Repository::discover and find_remote: a failure sends Event::FetchError
\* and the thread returns; otherwise the loop is entered, which fetches if
\* there is an upstream
FetchThreadStart ==
    /\ fetch_pc = "start"
    /\ \/ /\ fetch_pc' \in FetchCycleEntered
          /\ UNCHANGED event_channel
       \/ IF LoopReturned
          THEN /\ fetch_pc' = "panicked"
               /\ UNCHANGED event_channel
          ELSE /\ event_channel' = Append(event_channel, Event("FetchError", "none"))
               /\ fetch_pc' = "stopped"
    /\ UNCHANGED <<mode, fetch_status, input_signals, fetch_signals, loop_pc,
                   input_pc, returned_by, stops_sent, last_handled>>
    /\ UNCHANGED listVars
    /\ UNCHANGED <<repoVars, classifyVars, ttyVars, auxVars>>
    /\ UNCHANGED <<terminal, commit_log, upstream_target, commits_diff>>

\* remote.fetch returns: it failed and left the upstream ref alone, or it
\* moved the ref to the remote's commit `fetched`; after a fetch
\* UpstreamCommitsDiff::from_repo is given the object ids the thread was
\* spawned with and can fail.  One event is sent.
FetchThreadFetched ==
    /\ fetch_pc = "fetching"
    /\ \E fetched \in upstream_target..MaxUpstreamCommit :
       \E event \in { Event("FetchError", "none"),
                      FetchComplete(from_repo(LocalObjectId, UpstreamObjectId)) } :
           /\ upstream_target' = fetched
           /\ IF LoopReturned
              THEN /\ fetch_pc' = "panicked"
                   /\ UNCHANGED event_channel
              ELSE /\ event_channel' = Append(event_channel, event)
                   /\ fetch_pc' = "wait_signal"
    /\ UNCHANGED <<mode, fetch_status, input_signals, fetch_signals, loop_pc,
                   input_pc, returned_by, stops_sent, last_handled>>
    /\ UNCHANGED listVars
    /\ UNCHANGED <<repoVars, classifyVars, ttyVars, auxVars>>
    /\ UNCHANGED <<terminal, commit_log, commits_diff>>

\* signal_receiver.must_recv() of the fetch thread
FetchThreadSignal ==
    /\ fetch_pc = "wait_signal"
    /\ \/ /\ fetch_signals # <<>>
          /\ fetch_pc' \in IF Head(fetch_signals) = "Stop" THEN { "stopped" }
                           ELSE FetchCycleEntered
          /\ fetch_signals' = Tail(fetch_signals)
       \/ /\ fetch_signals = <<>>
          /\ LoopReturned
          /\ fetch_pc' = "panicked"
          /\ UNCHANGED fetch_signals
    /\ UNCHANGED <<mode, fetch_status, event_channel, input_signals, loop_pc,
                   input_pc, returned_by, stops_sent, last_handled>>
    /\ UNCHANGED listVars
    /\ UNCHANGED <<repoVars, classifyVars, ttyVars, auxVars>>
    /\ UNCHANGED <<terminal, commit_log, upstream_target, commits_diff>>

NextLoop ==
    \/ LoopUserInput
    \/ LoopSendContinue
    \/ LoopStopInputThread
    \/ LoopStopFetchThread
    \/ LoopUserInputError
    \/ LoopFetchEvent
    \/ InputThreadKeyPress
    \/ InputThreadReadError
    \/ InputThreadSignal
    \/ FetchThreadStart
    \/ FetchThreadFetched
    \/ FetchThreadSignal

SpecLoop == InitLoop /\ [][NextLoop]_vars

\* The three threads are scheduled by the operating system: a step of
\* run_event_loop that can be taken is taken, and so is the input thread's
\* receipt of a signal.  Nothing makes the user press a key, and nothing
\* makes a fetch return.
SpecLoopFair ==
    /\ SpecLoop
    /\ WF_vars(LoopUserInput)
    /\ WF_vars(LoopSendContinue)
    /\ WF_vars(LoopStopInputThread)
    /\ WF_vars(LoopStopFetchThread)
    /\ WF_vars(LoopUserInputError)
    /\ WF_vars(LoopFetchEvent)
    /\ WF_vars(InputThreadSignal)

\* The fetch thread is scheduled as well: it leaves its start-up code, it
\* goes on after a fetch call that has returned, and it receives a signal
\* that is in its channel.  That a fetch call returns is not for the
\* scheduler to decide: a call that never does is fetch_pc = "hung".
SpecLoopFetchFair ==
    /\ SpecLoopFair
    /\ WF_vars(FetchThreadStart)
    /\ WF_vars(FetchThreadFetched)
    /\ WF_vars(FetchThreadSignal)

(***************************************************************************)
(* Claims about the event loop (specification SpecLoop)                    *)
(***************************************************************************)
CountEvents(type) ==
    Cardinality({ i \in 1..Len(event_channel) : event_channel[i].type = type })

CountSignals(channel, signal) ==
    Cardinality({ i \in 1..Len(channel) : channel[i] = signal })

\* this step is run_event_loop receiving and handling an event of type `type`
HandlesType(type) ==
    /\ loop_pc = "recv"
    /\ event_channel # <<>>
    /\ Head(event_channel).type = type
    /\ event_channel' = Tail(event_channel)

\* this step is run_event_loop receiving and handling the event `event`
Handles(event) ==
    /\ loop_pc = "recv"
    /\ event_channel # <<>>
    /\ Head(event_channel) = event
    /\ event_channel' = Tail(event_channel)

\* UserInput events that were sent and are not acknowledged yet: those in
\* the event channel and the one handled whose Continue is still to be sent
UnacknowledgedInputs ==
    CountEvents("UserInput") + (IF loop_pc = "send_continue" THEN 1 ELSE 0)

\* C7: at most one user-input event is in flight: at most one UserInput
\* event is sent and unacknowledged, the input signal channel holds at most
\* one unconsumed Continue, and the input thread reads the next terminal
\* event only when neither is outstanding.
C7_OneInputInFlight ==
    /\ UnacknowledgedInputs + CountSignals(input_signals, "Continue") <= 1
    /\ input_pc = "read" =>
           UnacknowledgedInputs + CountSignals(input_signals, "Continue") = 0

\* C7 witness: the input thread waits while its event was handled and the
\* acknowledgment is in the signal channel, not yet consumed.
C7_Witness ==
    /\ input_pc = "wait_signal"
    /\ input_signals = <<"Continue">>
    /\ last_handled.type = "UserInput"

\* C8: handling 'f' while the upstream is being fetched sends no signal to
\* the fetch thread and leaves the fetch status, the changes and the
\* selection as they are.
C8_RefetchWhileFetchingIsNoOp ==
    [][(Handles(Event("UserInput", "f")) /\ fetch_status = "Fetching") =>
         /\ fetch_signals' = fetch_signals
         /\ fetch_status' = fetch_status
         /\ changes' = changes
         /\ index_of_selected_change' = index_of_selected_change]_vars

\* C8 witness: 'f' was handled in the change list before the fetch thread
\* has even started its initial fetch, so the status was Fetching throughout.
C8_Witness ==
    /\ last_handled = Event("UserInput", "f")
    /\ loop_pc = "send_continue"
    /\ mode = "ChangeList"
    /\ fetch_status = "Fetching"
    /\ fetch_pc = "start"

\* C9: with an upstream the fetch status starts as Fetching and changes only
\* Fetching -> Complete on FetchComplete, Fetching -> Failed on FetchError
\* and Complete or Failed -> Fetching on 'f'; a FetchComplete or FetchError
\* event is handled only while the status is Fetching.
C9_Step ==
    /\ fetch_status' # fetch_status =>
           \/ /\ fetch_status = "Fetching" /\ fetch_status' = "Complete"
              /\ HandlesType("FetchComplete")
           \/ /\ fetch_status = "Fetching" /\ fetch_status' = "Failed"
              /\ Handles(Event("FetchError", "none"))
           \/ /\ fetch_status \in { "Complete", "Failed" } /\ fetch_status' = "Fetching"
              /\ Handles(Event("UserInput", "f"))
    /\ ( /\ fetch_status # "None"
         /\ \/ HandlesType("FetchComplete")
            \/ Handles(Event("FetchError", "none")) )
           => fetch_status = "Fetching"

C9_FetchStatusTransitions ==
    fetch_status \in { "Fetching", "None" } /\ [][C9_Step]_vars

\* C9 witness: a refetch has moved the status back to Fetching (its Continue
\* is in the fetch signal channel) after an earlier fetch cycle had ended.
C9_Witness ==
    /\ fetch_status = "Fetching"
    /\ last_handled = Event("UserInput", "f")
    /\ fetch_signals = <<"Continue">>
    /\ fetch_pc = "wait_signal"

\* C10: whenever run_event_loop has returned it has sent Stop to the input
\* thread and to the fetch thread.
C10_StopSentToBothWorkers ==
    loop_pc = "returned" => stops_sent = { "input", "fetch" }

\* C11: no worker thread ever panics: the input thread and the fetch thread
\* never send on the event channel after run_event_loop has dropped the
\* receiver and never wait on a signal channel that is empty and has lost
\* its sender.
C11_WorkersNeverPanic ==
    /\ input_pc # "panicked"
    /\ fetch_pc # "panicked"

\* C12: a FetchError event handled with an upstream leaves the status Failed
\* and the loop running (unless the render of the list fails), and 'f'
\* handled in the change list while the status is Failed sets the status to
\* Fetching and never ends the loop because the fetch thread is out of reach.
C12_FetchFailureIsRetryable ==
    [][/\ (Handles(Event("FetchError", "none")) /\ fetch_status # "None") =>
              /\ fetch_status' = "Failed"
              /\ loop_pc' = "recv" \/ returned_by' = "render_error"
       /\ (Handles(Event("UserInput", "f")) /\ mode = "ChangeList"
               /\ fetch_status = "Failed") =>
              /\ fetch_status' = "Fetching"
              /\ returned_by' # "refetch_send_error"]_vars

\* C13: while the fetch thread is inside a fetch call that never returns,
\* the fetch status is Fetching, the input thread's sends never fail, 'f'
\* sends no signal and leaves the status alone, and a key press the input
\* thread has sent is handled and answered with Continue or Stop.
C13_HungFetchDoesNotBlockInput ==
    /\ [](fetch_pc = "hung" => (fetch_status = "Fetching" /\ input_pc # "panicked"))
    /\ [][(fetch_pc = "hung" /\ Handles(Event("UserInput", "f"))) =>
              (fetch_signals' = fetch_signals /\ fetch_status' = fetch_status)]_vars
    /\ (fetch_pc = "hung" /\ input_pc = "wait_signal")
           ~> (input_pc \in { "read", "stopped" })

\* C13 witness: with the fetch thread hung, a stage or unstage command was
\* handled (the list was rescanned), acknowledged, and the input thread reads
\* the next key.
C13_Witness ==
    /\ fetch_pc = "hung"
    /\ last_handled.type = "UserInput"
    /\ last_handled.key \in { "Space", "r", "a", "u" }
    /\ op = "refresh_changes"
    /\ input_pc = "read"
    /\ input_signals = <<>>
    /\ loop_pc = "recv"

\* C14: git commit is run at most once, with the terminal released from
\* the fullscreen (so it is not run when the release failed), and once it
\* was run the Enter key stays the last event run_event_loop handled.
C14_CommitAfterTerminalRelease ==
    /\ Len(commit_log) <= 1
    /\ \A i \in 1..Len(commit_log) : commit_log[i] = "normal"
    /\ commit_log # <<>> =>
           /\ last_handled = Event("UserInput", "Enter")
           /\ loop_pc \in { "stop_input", "stop_fetch", "returned" }

\* this step is the fetch thread sending a FetchComplete event
SendsFetchComplete ==
    /\ Len(event_channel') = Len(event_channel) + 1
    /\ event_channel'[Len(event_channel')].type = "FetchComplete"

\* C15: the commits_diff of a FetchComplete event is the ahead/behind count
\* between the local HEAD and the target the upstream ref has after the
\* fetch, and so is the commits_diff run_event_loop stores from the event.
C15_FetchCompleteCarriesDiffAfterFetch ==
    [][/\ SendsFetchComplete =>
              event_channel'[Len(event_channel')].commits_diff =
                  graph_ahead_behind(LocalObjectId, upstream_target')
       /\ (HandlesType("FetchComplete") /\ fetch_status # "None") =>
              commits_diff' = graph_ahead_behind(LocalObjectId, upstream_target)]_vars

\* fetch cycles that are outstanding: Continue signals the fetch thread has
\* not consumed, the cycle the thread is in (the one it enters when spawned
\* included), and fetch events run_event_loop has not consumed
OutstandingFetchCycles ==
    CountSignals(fetch_signals, "Continue")
        + (IF fetch_pc \in { "start", "fetching", "hung" } THEN 1 ELSE 0)
        + CountEvents("FetchComplete") + CountEvents("FetchError")

\* C33: with an upstream at most one fetch cycle is outstanding, and one is
\* outstanding exactly when the status is Fetching; a fetch call that
\* returns is followed by exactly one fetch event; without an upstream the
\* fetch thread sends no event at all.
C33_OneFetchCycleOutstanding ==
    /\ [](fetch_status # "None" =>
             /\ OutstandingFetchCycles <= 1
             /\ OutstandingFetchCycles = 1 <=> fetch_status = "Fetching")
    /\ [](fetch_status = "None" =>
             CountEvents("FetchComplete") + CountEvents("FetchError") = 0)
    /\ [][FetchThreadFetched =>
              /\ Len(event_channel') = Len(event_channel) + 1
              /\ event_channel'[Len(event_channel')].type
                     \in { "FetchComplete", "FetchError" }]_vars

\* C34: if every fetch call returns, a status of Fetching is followed by
\* Complete or Failed, or by the return of run_event_loop.
C34_FetchingEnds ==
    [](fetch_pc # "hung") =>
        ((fetch_status = "Fetching")
            ~> (fetch_status \in { "Complete", "Failed" } \/ LoopReturned))

\* C34 witness: a refetch the user asked for has ended: its FetchError was
\* handled, the status is Failed and the fetch thread waits for a signal.
C34_Witness ==
    /\ fetch_status = "Failed"
    /\ last_handled = Event("FetchError", "none")
    /\ upstream_target > UpstreamObjectId
    /\ fetch_pc = "wait_signal"
    /\ fetch_signals = <<>>
    /\ loop_pc = "recv"

\* C39: a key handled while the help screen is shown leaves the changes,
\* the cursor, the ordering, the fetch status and the fetch signal channel
\* as they are and does not run git commit; Esc switches to the change list
\* and the loop goes on (it returns only with the error of a failed render),
\* Ctrl-C ends the loop as a quit, and every other key changes nothing and
\* is acknowledged with Continue.
C39_HelpScreenKeysAreInert ==
    [][(HandlesType("UserInput") /\ mode = "HelpScreen") =>
          LET key == Head(event_channel).key
          IN  /\ UNCHANGED <<changes, index_of_selected_change, ordering, op>>
              /\ UNCHANGED <<fetch_status, commits_diff, fetch_signals, commit_log>>
              /\ key = "Esc" =>
                     /\ mode' = "ChangeList"
                     /\ \/ loop_pc' = "send_continue" /\ terminal' = terminal
                        \/ loop_pc' = "stop_input" /\ returned_by' = "handler_error"
              /\ key = "CtrlC" =>
                     /\ mode' = "HelpScreen"
                     /\ loop_pc' = "stop_input"
                     /\ returned_by' = "quit"
              /\ key \notin { "Esc", "CtrlC" } =>
                     /\ mode' = "HelpScreen"
                     /\ loop_pc' = "send_continue"
                     /\ terminal' = terminal]_vars

\* C39 witness: Enter was handled in the help screen: the loop is about to
\* acknowledge it, the terminal is still in the fullscreen and git commit
\* was not run.
C39_Witness ==
    /\ mode = "HelpScreen"
    /\ last_handled = Event("UserInput", "Enter")
    /\ loop_pc = "send_continue"
    /\ terminal = "fullscreen"
    /\ commit_log = <<>>

(***************************************************************************)
(* The ChangeList operations on the repository (specification SpecStage):  *)
(* the four operations that change the index, the two that move the        *)
(* cursor, and edits of the working tree by other programs, which the      *)
(* ChangeList sees at its next rescan.                                     *)
(***************************************************************************)
\* what a file of the working tree can be: missing, as committed (for a
\* committed file) or with other contents and mode
FileStates(path) ==
    IF HeadTree[path] = Absent THEN { Absent, Edited }
    ELSE { Absent, Committed, Edited }

\* the working trees a session starts on
Worktrees == { wt \in [Range(RepoPaths) -> { Absent, Committed, Edited }] :
                 \A path \in Range(RepoPaths) : wt[path] \in FileStates(path) }

\* ChangeList::new on a repository whose index is the tree of HEAD
InitStage ==
    /\ \E wt \in Worktrees :
           /\ worktree = wt
           /\ ChangeListNew(get_statuses(HeadTree, wt))
    /\ index = HeadTree
    /\ disk_index = HeadTree
    /\ last_op = NoOp
    /\ edits = 0
    /\ LoopAtRest
    /\ ClassifyAtRest
    /\ TtyAtRest
    /\ AuxAtRest

\* the session goes on: an Err of a ChangeList operation ends run_event_loop
Running == HasChangesAtStart /\ last_op.result = "Ok"

\* where the environment makes an operation fail: nowhere, in the change of
\* the index, in index.write, in the rescan
Failures == { "none", "apply", "write", "refresh" }

\* a mutant of write_and_refresh: the index is written whether or not the
\* change was applied
write_and_refresh_always_writes(name, change, applied, fail) ==
    /\ index' = applied.index
    /\ disk_index' = index_write(applied.index, disk_index)
    /\ IF ~applied.ok
       THEN /\ last_op' = [Op(name, change, TRUE, "Err", <<>>) EXCEPT
                              !.failed_at = IF "at" \in DOMAIN applied
                                            THEN applied.at ELSE 0]
            /\ UNCHANGED listVars
       ELSE IF fail \in { "write", "refresh" }
       THEN /\ last_op' = Op(name, change, TRUE, "Err", <<"modify", "write">>)
            /\ UNCHANGED listVars
       ELSE /\ last_op' = Op(name, change, TRUE, "Ok",
                             <<"modify", "write", "refresh">>)
            /\ refresh_changes(get_statuses(applied.index, worktree))

\* what the four operations do once the index in memory was changed to
\* applied.index (or changing it failed): self.index.write(), then
\* self.refresh_changes(), each ending the operation with Err if it fails
write_and_refresh(name, change, applied, fail) ==
    LET fresh == change.path = NoPath
                     \/ status_of(index, worktree, change.path) = change.status
    IN  /\ index' = applied.index
        /\ IF ~applied.ok
           THEN /\ last_op' = [Op(name, change, fresh, "Err", <<>>) EXCEPT
                                  !.failed_at = IF "at" \in DOMAIN applied
                                                THEN applied.at ELSE 0]
                /\ UNCHANGED <<disk_index, listVars>>
           ELSE IF fail = "write"
           THEN /\ last_op' = Op(name, change, fresh, "Err", <<"modify">>)
                /\ UNCHANGED <<disk_index, listVars>>
           ELSE IF fail = "refresh"
           THEN /\ last_op' = Op(name, change, fresh, "Err", <<"modify", "write">>)
                /\ disk_index' = index_write(applied.index, disk_index)
                /\ UNCHANGED listVars
           ELSE /\ last_op' = Op(name, change, fresh, "Ok",
                                 <<"modify", "write", "refresh">>)
                /\ disk_index' = index_write(applied.index, disk_index)
                /\ refresh_changes(get_statuses(applied.index, worktree))

\* a mutant of nothing_selected: an empty list is an error
nothing_selected_is_error(name) ==
    /\ last_op' = Op(name, Change(NoPath, NonConflicting(0, 0)), TRUE, "Err", <<>>)
    /\ UNCHANGED <<index, disk_index, listVars>>

\* the early return of the operations on the selected change
nothing_selected(name) ==
    /\ last_op' = Op(name, Change(NoPath, NonConflicting(0, 0)), TRUE, "Ok", <<>>)
    /\ UNCHANGED <<index, disk_index, listVars>>

\* ChangeList::stage_selected_change
stage_selected_change(fail) ==
    IF changes = <<>> THEN fail = "none" /\ nothing_selected("stage_selected_change")
    ELSE LET change == changes[index_of_selected_change + 1]
         IN  write_and_refresh("stage_selected_change", change,
                 IF fail = "apply" THEN [ok |-> FALSE, index |-> index]
                 ELSE [ok |-> TRUE, index |-> stage(change, index, worktree)],
                 fail)

StageSelectedChange ==
    /\ Running
    /\ \E fail \in Failures : stage_selected_change(fail)
    /\ UNCHANGED <<worktree, edits, classifyVars, ttyVars, auxVars>>
    /\ UNCHANGED loopVars

\* ChangeList::stage_all_changes: index.add_all(["*"]) fails at the path
\* with ordinal fail_at if fail = "apply"
stage_all_changes(fail, fail_at) ==
    write_and_refresh("stage_all_changes", Change(NoPath, NonConflicting(0, 0)),
        IF fail = "apply" THEN add_all_failing(index, worktree, <<42>>, fail_at)
        ELSE [ok |-> TRUE, index |-> add_all(index, worktree, <<42>>)],
        fail)

StageAllChanges ==
    /\ Running
    /\ \E fail \in Failures :
       \E fail_at \in IF fail = "apply" THEN 1..Len(RepoPaths) ELSE { 0 } :
           stage_all_changes(fail, fail_at)
    /\ UNCHANGED <<worktree, edits, classifyVars, ttyVars, auxVars>>
    /\ UNCHANGED loopVars

\* ChangeList::unstage_selected_change
unstage_selected_change(fail) ==
    IF changes = <<>> THEN fail = "none" /\ nothing_selected("unstage_selected_change")
    ELSE LET change == changes[index_of_selected_change + 1]
         IN  write_and_refresh("unstage_selected_change", change,
                 IF fail = "apply" THEN [ok |-> FALSE, index |-> index]
                 ELSE unstage(change, index),
                 fail)

UnstageSelectedChange ==
    /\ Running
    /\ \E fail \in Failures : unstage_selected_change(fail)
    /\ UNCHANGED <<worktree, edits, classifyVars, ttyVars, auxVars>>
    /\ UNCHANGED loopVars

\* ChangeList::unstage_all_changes: get_repo_head_tree (fail_at = 0 with
\* fail = "apply" is its failure), then the loop over self.changes
unstage_all_changes(fail, fail_at) ==
    write_and_refresh("unstage_all_changes", Change(NoPath, NonConflicting(0, 0)),
        IF fail = "apply" /\ fail_at = 0 THEN [ok |-> FALSE, index |-> index]
        ELSE unstage_each(changes, 1, index, fail_at),
        fail)

UnstageAllChanges ==
    /\ Running
    /\ \E fail \in Failures :
       \E fail_at \in IF fail = "apply" THEN 0..Len(changes) ELSE { 0 } :
           unstage_all_changes(fail, fail_at)
    /\ UNCHANGED <<worktree, edits, classifyVars, ttyVars, auxVars>>
    /\ UNCHANGED loopVars

\* another program writes, creates or deletes a file of the working tree
WorktreeEdit ==
    /\ Running
    /\ edits < MaxWorktreeEdits
    /\ \E path \in Range(RepoPaths) :
       \E entry \in FileStates(path) \ { worktree[path] } :
           worktree' = [worktree EXCEPT ![path] = entry]
    /\ edits' = edits + 1
    /\ last_op' = [last_op EXCEPT !.name = "worktree_edit"]
    /\ UNCHANGED <<index, disk_index, classifyVars, ttyVars, auxVars>>
    /\ UNCHANGED listVars
    /\ UNCHANGED loopVars

NextStage ==
    \/ StageSelectedChange
    \/ StageAllChanges
    \/ UnstageSelectedChange
    \/ UnstageAllChanges
    \/ SelectNextChange
    \/ SelectPreviousChange
    \/ WorktreeEdit

SpecStage == InitStage /\ [][NextStage]_vars

(***************************************************************************)
(* Claims about the ChangeList operations (specification SpecStage)        *)
(***************************************************************************)
\* the status the list shows for a path, NonConflicting(0, 0) if it shows none
ListedStatus(chs, path) ==
    IF path \in PathsOf(chs) THEN chs[IndexOfPath(chs, path)].status
    ELSE NonConflicting(0, 0)

\* C16: after construction and after every operation the cursor is a valid
\* index: 0 when the list is empty, less than the length of the list
\* otherwise.
C16_CursorIsValidIndex ==
    IF changes = <<>> THEN index_of_selected_change = 0
    ELSE index_of_selected_change \in 0..(Len(changes) - 1)

\* C16 witness: an operation has rescanned, the list has lost an entry and
\* the cursor is on the last entry that is left.
C16_Witness ==
    /\ last_op.name \in { "stage_selected_change", "unstage_selected_change",
                          "stage_all_changes", "unstage_all_changes" }
    /\ last_op.steps = <<"modify", "write", "refresh">>
    /\ changes # <<>>
    /\ index_of_selected_change = Len(changes) - 1
    /\ Cardinality(listed) > Len(changes)
    /\ edits > 0

\* this step is unstage_selected_change returning Ok on the entry `path`
\* right after stage_selected_change returned Ok on the same entry, whose
\* status then was `status`, in the list and in the repository
RoundTrip(path, status) ==
    /\ last_op.name = "stage_selected_change"
    /\ last_op.path = path
    /\ last_op.status = status
    /\ last_op.fresh
    /\ last_op'.name = "unstage_selected_change"
    /\ last_op'.path = path
    /\ last_op'.result = "Ok"

\* C17: stage_selected_change and then unstage_selected_change on a
\* committed file whose only change is a modification in the working tree
\* leave the index entry of the path with the blob id and the mode of the
\* entry of HEAD's tree, in memory and on durable storage, and the path is
\* listed as modified in the working tree only.
C17_StageUnstageRestoresHeadEntry ==
    [][\A path \in Range(RepoPaths) :
           RoundTrip(path, NonConflicting(0, WT_MODIFIED)) =>
               /\ index'[path] = HeadTree[path]
               /\ disk_index'[path] = HeadTree[path]
               /\ ListedStatus(changes', path) = NonConflicting(0, WT_MODIFIED)]_vars

\* C17 witness: unstage_selected_change has returned Ok on an entry that was
\* modified in the index only (its modification was staged), the index has
\* the entry of HEAD's tree again and the file still differs from it.
C17_Witness ==
    /\ last_op.name = "unstage_selected_change"
    /\ last_op.steps = <<"modify", "write", "refresh">>
    /\ last_op.status = NonConflicting(INDEX_MODIFIED, 0)
    /\ last_op.fresh
    /\ index[last_op.path] = Committed
    /\ worktree[last_op.path] = Edited
    /\ ListedStatus(changes, last_op.path) = NonConflicting(0, WT_MODIFIED)

\* C18: stage_selected_change and then unstage_selected_change on a file
\* that is neither committed nor in the index leave no index entry for the
\* path, in memory and on durable storage, and the path is listed as
\* untracked again.
C18_StageUnstageUntrackedLeavesNoEntry ==
    [][\A path \in Range(RepoPaths) :
           (RoundTrip(path, NonConflicting(0, WT_NEW)) /\ HeadTree[path] = Absent) =>
               /\ index'[path] = Absent
               /\ disk_index'[path] = Absent
               /\ ListedStatus(changes', path) = NonConflicting(0, WT_NEW)]_vars

\* C18 witness: unstage_selected_change has returned Ok on an entry that was
\* new in the index (the untracked file was staged); the index has no entry
\* for it and the file is listed as untracked.
C18_Witness ==
    /\ last_op.name = "unstage_selected_change"
    /\ last_op.steps = <<"modify", "write", "refresh">>
    /\ last_op.status = NonConflicting(INDEX_NEW, 0)
    /\ last_op.fresh
    /\ HeadTree[last_op.path] = Absent
    /\ index[last_op.path] = Absent
    /\ ListedStatus(changes, last_op.path) = NonConflicting(0, WT_NEW)

\* C19: when stage_selected_change returns Ok and the selected path is a
\* regular file, the index has no entry for the path if the listed status
\* showed a deletion in the working tree, and has the file's current
\* contents under the path otherwise.
C19_StageRemovesDeletedAddsOther ==
    [][(StageSelectedChange /\ changes # <<>> /\ last_op'.result = "Ok"
            /\ worktree[last_op'.path] # Absent) =>
          IF last_op'.status.worktree = WT_DELETED
          THEN index'[last_op'.path] = Absent
          ELSE index'[last_op'.path] = worktree[last_op'.path]]_vars

\* C19 witness: stage_selected_change has returned Ok on an entry listed as
\* deleted in the working tree whose path is a regular file (the file was
\* written again after the scan), and the index has no entry for the path.
C19_Witness ==
    /\ last_op.name = "stage_selected_change"
    /\ last_op.result = "Ok"
    /\ last_op.status.worktree = WT_DELETED
    /\ worktree[last_op.path] # Absent
    /\ index[last_op.path] = Absent
    /\ \E path \in Range(RepoPaths) \ { last_op.path } :
           index[path] = Edited /\ HeadTree[path] = Committed

\* the four operations that change the index
MutatingOperations ==
    { "stage_selected_change", "unstage_selected_change",
      "stage_all_changes", "unstage_all_changes" }

\* the last operation has changed the index in memory, written it and then
\* rescanned: the index on durable storage is the index in memory and the
\* list holds the statuses of the repository as it is now
ModifiedWrittenRefreshed ==
    /\ last_op.steps = <<"modify", "write", "refresh">>
    /\ disk_index = index
    /\ Range(changes) = Range(get_statuses(index, worktree))
    /\ op = "refresh_changes"

\* C20 as stated: every one of the four operations that returns Ok has
\* changed the index in memory, then written it, then rescanned.
C20_SuccessMeansModifiedWrittenRefreshed ==
    (last_op.name \in MutatingOperations /\ last_op.result = "Ok")
        => ModifiedWrittenRefreshed

\* C20 as amended: every one of the four operations that returns Ok has
\* changed the index in memory, then written it, then rescanned, except
\* stage_selected_change and unstage_selected_change on an empty list, which
\* return Ok and leave the index, the storage and the list alone.
C20_SuccessMeansModifiedWrittenRefreshedUnlessEmpty ==
    /\ []((last_op.name \in MutatingOperations /\ last_op.result = "Ok") =>
              IF last_op.steps = <<>>
              THEN /\ changes = <<>>
                   /\ last_op.name \in { "stage_selected_change",
                                         "unstage_selected_change" }
              ELSE ModifiedWrittenRefreshed)
    /\ [][(changes = <<>> /\ (StageSelectedChange \/ UnstageSelectedChange)) =>
              /\ last_op'.result = "Ok"
              /\ UNCHANGED <<index, disk_index, changes, index_of_selected_change>>]_vars

(***************************************************************************)
(* ChangeList::new on a status scan with conflicted paths (specification   *)
(* SpecPopulate): the scan and the conflict entries of the index are       *)
(* drawn independently, so that they can disagree.                         *)
(***************************************************************************)
ScanPaths == { <<97>>, <<98>>, <<99>> }

\* the status entries of the scans: a path in conflict, a path new in the
\* index only, a path modified in the working tree only
StatusEntries ==
    { StatusEntry(path, NonConflicting(0, 0), TRUE) : path \in ScanPaths }
        \cup { StatusEntry(path, status, FALSE) :
                   path \in ScanPaths,
                   status \in { NonConflicting(INDEX_NEW, 0),
                                NonConflicting(0, WT_MODIFIED) } }

IndexConflicts ==
    { IndexConflict(path, ancestor, our, their) :
          path \in ScanPaths, ancestor \in BOOLEAN, our \in BOOLEAN,
          their \in BOOLEAN }

\* the sequences of at most max_len elements of S in ascending order of
\* their (one-byte) paths, the order in which the status scan and the
\* conflict iterator go through the index
PathOrderedSeqs(S, max_len) ==
    UNION { { q \in [1..n -> S] : \A i, j \in 1..n : i < j => q[i].path[1] < q[j].path[1] }
            : n \in 0..max_len }

InitPopulate ==
    /\ statuses \in PathOrderedSeqs(StatusEntries, MaxStatusEntries)
    /\ conflicts \in PathOrderedSeqs(IndexConflicts, MaxIndexConflicts)
    /\ populated = NotPopulated
    /\ compared = NotCompared
    /\ changes = <<>>
    /\ ordering = EmptyMap
    /\ index_of_selected_change = 0
    /\ listed = {}
    /\ op = "not_constructed"
    /\ LoopAtRest
    /\ RepoAtRest
    /\ TtyAtRest
    /\ AuxAtRest

\* ChangeList::new: populate_changes, then the seed of the ordering and the
\* default selection; an Err of populate_changes is the Err of new
ChangeListNewFromScan ==
    /\ op = "not_constructed"
    /\ populated' = populate_from_scan(statuses, conflicts)
    /\ IF populated'.ok
       THEN LET seeded == sort_changes_and_save_ordering(EmptyMap, populated'.changes)
            IN  /\ changes' = seeded.changes
                /\ ordering' = seeded.map
                /\ index_of_selected_change' = select_default_change(seeded.changes)
                /\ listed' = PathsOf(populated'.changes)
                /\ op' = "new"
       ELSE /\ op' = "failed"
            /\ UNCHANGED <<changes, ordering, index_of_selected_change, listed>>
    /\ UNCHANGED <<statuses, conflicts, compared, ttyVars, auxVars>>
    /\ UNCHANGED loopVars
    /\ UNCHANGED repoVars

NextPopulate == ChangeListNewFromScan

SpecPopulate == InitPopulate /\ [][NextPopulate]_vars

IsConflicting(change) == change.status.kind = "Conflicting"
TouchesWorktree(change) ==
    change.status.kind = "NonConflicting" /\ change.status.worktree > 0

\* the cursor is on the first entry of chs that satisfies Test
OnFirst(chs, selected, Test(_)) ==
    /\ selected \in 0..(Len(chs) - 1)
    /\ Test(chs[selected + 1])
    /\ \A i \in 1..selected : ~Test(chs[i])

\* the default selection of a list: the first conflicted entry if there
\* is one, otherwise the first entry that touches the working tree
DefaultSelection(chs, selected) ==
    IF \E i \in 1..Len(chs) : IsConflicting(chs[i])
    THEN OnFirst(chs, selected, IsConflicting)
    ELSE (\E i \in 1..Len(chs) : TouchesWorktree(chs[i]))
             => OnFirst(chs, selected, TouchesWorktree)

\* C23: when ChangeList::new returns Ok, the cursor is on the first
\* conflicted entry of the seeded list if there is one, otherwise on the
\* first entry that touches the working tree if there is one; and on the
\* two lists [Conflicting, worktree-modified] and [index-new only,
\* worktree-modified] select_default_change gives 0 and 1.
C23_DefaultSelection ==
    [][(ChangeListNewFromScan /\ populated'.ok) =>
          /\ DefaultSelection(changes', index_of_selected_change')
          /\ select_default_change(
                 << Change(<<97>>, ConflictingOf("Unmerged", "Unmerged")),
                    Change(<<98>>, NonConflicting(0, WT_MODIFIED)) >>) = 0
          /\ select_default_change(
                 << Change(<<97>>, NonConflicting(INDEX_NEW, 0)),
                    Change(<<98>>, NonConflicting(0, WT_MODIFIED)) >>) = 1]_vars

\* C23 witness: a list was seeded with an entry modified in the working
\* tree before a conflicted entry, and the cursor is on the conflicted
\* entry.
C23_Witness ==
    /\ op = "new"
    /\ Len(changes) = 2
    /\ TouchesWorktree(changes[1])
    /\ IsConflicting(changes[2])
    /\ index_of_selected_change = 1

\* the table of C24: which of (ancestor, our, their) there are, and the
\* (ours, theirs) they are classified as
ConflictTable(ancestor, our, their) ==
    CASE ancestor /\ our /\ their -> <<"Unmerged", "Unmerged">>
      [] ancestor /\ our /\ ~their -> <<"Unmerged", "Deleted">>
      [] ancestor /\ ~our /\ their -> <<"Deleted", "Unmerged">>
      [] ancestor /\ ~our /\ ~their -> <<"Deleted", "Deleted">>
      [] ~ancestor /\ our /\ their -> <<"Added", "Added">>
      [] ~ancestor /\ our /\ ~their -> <<"Added", "Unmerged">>
      [] ~ancestor /\ ~our /\ their -> <<"Unmerged", "Added">>

\* populate_changes went into the conflict entries of the index
ClassifiesConflicts == \E i \in 1..Len(statuses) : statuses[i].conflicted

\* C24: when populate_changes classifies the conflict entries of the index
\* and returns Ok, every conflict entry has one of ancestor, our, their and
\* its path is listed with the (ours, theirs) of the table; when a conflict
\* entry has none of the three, populate_changes returns an error and no
\* Change is made for that entry.
C24_ConflictClassificationTable ==
    [][(ChangeListNewFromScan /\ ClassifiesConflicts) =>
          /\ populated'.ok =>
                \A i \in 1..Len(conflicts) :
                   LET conflict == conflicts[i]
                   IN  /\ has_conflict_path(conflict)
                       /\ \E j \in 1..Len(populated'.changes) :
                              LET change == populated'.changes[j]
                                  pair == ConflictTable(conflict.ancestor,
                                                        conflict.our, conflict.their)
                              IN  /\ change.path = conflict.path
                                  /\ change.status = ConflictingOf(pair[1], pair[2])
          /\ (\E i \in 1..Len(conflicts) : ~has_conflict_path(conflicts[i])) =>
                /\ ~populated'.ok
                /\ Cardinality({ j \in 1..Len(populated'.changes) :
                                    IsConflicting(populated'.changes[j]) })
                       < Len(conflicts)]_vars

\* C24 witness: a conflict entry with ancestor and our alone was classified
\* and is listed as (Unmerged, Deleted).
C24_Witness ==
    /\ op = "new"
    /\ \E i \in 1..Len(conflicts) :
           /\ conflicts[i].ancestor /\ conflicts[i].our /\ ~conflicts[i].their
           /\ Change(conflicts[i].path, ConflictingOf("Unmerged", "Deleted"))
                  \in Range(changes)

\* the paths the scan flags as conflicted and the paths of the conflict
\* entries of the index
FlaggedPaths == { statuses[i].path : i \in { k \in 1..Len(statuses) : statuses[k].conflicted } }
ConflictPaths ==
    { conflicts[i].path : i \in { k \in 1..Len(conflicts) : has_conflict_path(conflicts[k]) } }

\* C25: populate_changes returns Ok only if the paths the scan flags as
\* conflicted are the paths of the conflict entries of the index, and then
\* every path of the scan is in the changes exactly once.
C25_ConflictsMatchedOneToOne ==
    [][(ChangeListNewFromScan /\ populated'.ok) =>
          /\ FlaggedPaths = ConflictPaths
          /\ Len(populated'.changes) = Len(statuses)
          /\ \A i \in 1..Len(statuses) :
                 Cardinality({ j \in 1..Len(populated'.changes) :
                                 populated'.changes[j].path = statuses[i].path }) = 1]_vars

(***************************************************************************)
(* StatusPriorityMap::compare_statuses on the statuses of the data model   *)
(* (specification SpecStatus): three statuses are drawn and compared with  *)
(* each other.                                                             *)
(***************************************************************************)
\* the variants of the data model: the single index-side states, the
\* single worktree-side states, the combinations of one of each and the
\* conflicting pairs
StatusVariants ==
    ({ NonConflicting(i, w) : i \in 0..STATUSES_LENGTH, w \in 0..STATUSES_LENGTH }
         \ { NonConflicting(0, 0) })
        \cup { Conflicting(k - 1) : k \in 1..Len(CONFLICTING_STATUSES) }

\* a git2 status that is none of them (no index-side and no worktree-side
\* state, as Status::IGNORED or Status::CURRENT): the map has no key for it
UnmappedStatus == NonConflicting(0, 0)

InitStatus ==
    /\ \E s1, s2, s3 \in StatusVariants \cup { UnmappedStatus } :
           compared = [statuses |-> <<s1, s2, s3>>, orderings |-> <<>>]
    /\ statuses = <<>>
    /\ conflicts = <<>>
    /\ populated = NotPopulated
    /\ changes = <<>>
    /\ ordering = EmptyMap
    /\ index_of_selected_change = 0
    /\ listed = {}
    /\ op = "not_constructed"
    /\ LoopAtRest
    /\ RepoAtRest
    /\ TtyAtRest
    /\ AuxAtRest

\* compare_statuses applied to (s1, s2), (s2, s3), (s1, s3) and (s2, s1)
CompareStatuses ==
    /\ compared.orderings = <<>>
    /\ LET st == compared.statuses
       IN  compared' = [compared EXCEPT !.orderings =
                           << compare_statuses(st[1], st[2]),
                              compare_statuses(st[2], st[3]),
                              compare_statuses(st[1], st[3]),
                              compare_statuses(st[2], st[1]) >>]
    /\ UNCHANGED <<statuses, conflicts, populated, ttyVars, auxVars>>
    /\ UNCHANGED listVars
    /\ UNCHANGED loopVars
    /\ UNCHANGED repoVars

NextStatus == CompareStatuses

SpecStatus == InitStatus /\ [][NextStatus]_vars

\* Ordering::reverse
Reverse(ord) ==
    IF ord = "Less" THEN "Greater" ELSE IF ord = "Greater" THEN "Less" ELSE ord

\* the three statuses were compared and all are variants of the data model
ComparedVariants ==
    /\ compared.orderings # <<>>
    /\ \A i \in 1..3 : compared.statuses[i] \in StatusVariants

\* C26: every variant of the data model has a rank; compare_statuses
\* returns Equal for two variants exactly if they are the same variant, it
\* is antisymmetric and it is transitive.
C26_PrioritiesTotalAndStrict ==
    ComparedVariants =>
        LET st == compared.statuses
            ord == compared.orderings
        IN  /\ \A i \in 1..3 : StatusPriority(st[i]) # NoPriority
            /\ (ord[1] = "Equal") <=> (st[1] = st[2])
            /\ (ord[2] = "Equal") <=> (st[2] = st[3])
            /\ (ord[3] = "Equal") <=> (st[1] = st[3])
            /\ ord[4] = Reverse(ord[1])
            /\ (ord[1] = "Less" /\ ord[2] = "Less") => ord[3] = "Less"
            /\ (ord[1] = "Greater" /\ ord[2] = "Greater") => ord[3] = "Greater"

\* C26 witness: a single index-side state, the untracked state and a
\* conflicting pair were compared, each less than the next.
C26_Witness ==
    /\ compared.statuses = << NonConflicting(INDEX_DELETED, 0),
                              NonConflicting(0, WT_NEW),
                              ConflictingOf("Added", "Added") >>
    /\ compared.orderings = <<"Less", "Less", "Less", "Greater">>

\* the band of a variant: 1 single index-side state, 2 single worktree-side
\* state, 3 combination, 4 untracked, 5 conflicting
Band(status) ==
    IF status.kind = "Conflicting" THEN 5
    ELSE IF status = NonConflicting(0, WT_NEW) THEN 4
    ELSE IF status.index > 0 /\ status.worktree > 0 THEN 3
    ELSE IF status.worktree > 0 THEN 2
    ELSE 1

\* C27: a variant of a lower band compares Less than a variant of a higher
\* band, the bands being, lowest first: single index-side states, single
\* worktree-side states, combinations, untracked, conflicting.
C27_RankBandsInOrder ==
    ComparedVariants =>
        (Band(compared.statuses[1]) < Band(compared.statuses[2])
            => compared.orderings[1] = "Less")

\* C28: compare_statuses returns no ordering for a pair with a status the
\* map has no rank for.
C28_UnmappedStatusIsNotOrdered ==
    (compared.orderings # <<>> /\ UnmappedStatus \in Range(compared.statuses)) =>
        \A k \in 1..Len(compared.orderings) :
            compared.orderings[k] \notin { "Less", "Equal", "Greater" }

(***************************************************************************)
(* Terminal set-up and cleanup (specification SpecTerminal):               *)
(* run_fullscreen_application of main.rs with its Cleanup guard, and       *)
(* enter_fullscreen / exit_fullscreen of the FullscreenRenderer.  The      *)
(* environment chooses which terminal operations fail.                     *)
(***************************************************************************)
\* the steps of run_fullscreen_application that can return an error
AppSteps == <<"enable_raw_mode", "enter_alternate_screen", "terminal_new",
              "render", "user_input_event_loop">>

StepOrdinal(steps, step) == CHOOSE k \in 1..Len(steps) : steps[k] = step

\* the step `step` is reached and succeeds when the first failing step is
\* `fail` ("none": no step fails)
Succeeds(steps, step, fail) ==
    fail = "none" \/ StepOrdinal(steps, step) < StepOrdinal(steps, fail)

\* the elements of steps that are in the set S, in order
Among(steps, S) ==
    LET in_S(x) == x \in S IN SelectSeq(steps, in_S)

\* a mutant of cleanup_drop: the cleanup ends at its first failing step
cleanup_drop_until_failure(tty, cleanup_fails) ==
    LET failing == Among(CleanupSteps, cleanup_fails)
        last == IF failing = <<>> THEN Len(CleanupSteps)
                ELSE StepOrdinal(CleanupSteps, Head(failing))
    IN  [tty |-> Tty(tty.raw_mode /\ failing # <<>>,
                     tty.alternate_screen /\ failing # <<>>),
         attempted |-> SubSeq(CleanupSteps, 1, last),
         printed |-> IF failing = <<>> THEN <<>> ELSE <<Head(failing)>>]

\* Cleanup::drop: the four steps, each attempted whatever the others
\* returned, then one line printed for each that failed
cleanup_drop(tty, cleanup_fails) ==
    [tty |-> Tty(tty.raw_mode /\ "disable_raw_mode" \in cleanup_fails,
                 tty.alternate_screen
                     /\ cleanup_fails \cap { "leave_alternate_screen", "flush" } # {}),
     attempted |-> CleanupSteps,
     printed |-> Among(CleanupSteps, cleanup_fails)]

\* run_fullscreen_application: the body up to its first failing step, then
\* the drop of `cleanup` (by drop(cleanup) or by leaving the scope with ?)
run_fullscreen_application(fail, cleanup_fails) ==
    LET in_body == Tty(Succeeds(AppSteps, "enable_raw_mode", fail),
                       Succeeds(AppSteps, "enter_alternate_screen", fail))
        dropped == cleanup_drop(in_body, cleanup_fails)
    IN  [result |-> IF fail = "none" THEN "Ok" ELSE fail,
         failed |-> fail,
         tty |-> dropped.tty,
         attempted |-> dropped.attempted,
         printed |-> dropped.printed]

RunFullscreenApplication ==
    /\ app = AppNotRun
    /\ \E fail \in Range(AppSteps) \cup { "none" } :
       \E cleanup_fails \in SUBSET Range(CleanupSteps) :
           app' = run_fullscreen_application(fail, cleanup_fails)
    /\ UNCHANGED fullscreen
    /\ UNCHANGED <<listVars, loopVars, repoVars, classifyVars, auxVars>>

\* the steps of enter_fullscreen and of exit_fullscreen, each ended by ?
EnterSteps == <<"enable_raw_mode", "enter_alternate_screen", "hide_cursor", "flush">>
ExitSteps == CleanupSteps

\* FullscreenRenderer::enter_fullscreen when its first failing step is fail
enter_fullscreen(renderer, fail) ==
    IF renderer.fullscreen_entered
    THEN [renderer EXCEPT !.call = "enter_fullscreen", !.result = "Ok",
                          !.attempted = <<>>]
    ELSE [fullscreen_entered |-> fail = "none",
          tty |-> Tty(renderer.tty.raw_mode
                          \/ Succeeds(EnterSteps, "enable_raw_mode", fail),
                      renderer.tty.alternate_screen
                          \/ Succeeds(EnterSteps, "flush", fail)),
          call |-> "enter_fullscreen",
          result |-> IF fail = "none" THEN "Ok" ELSE fail,
          attempted |-> IF fail = "none" THEN EnterSteps
                        ELSE SubSeq(EnterSteps, 1, StepOrdinal(EnterSteps, fail))]

\* FullscreenRenderer::exit_fullscreen when its first failing step is fail
exit_fullscreen(renderer, fail) ==
    IF ~renderer.fullscreen_entered
    THEN [renderer EXCEPT !.call = "exit_fullscreen", !.result = "Ok",
                          !.attempted = <<>>]
    ELSE [fullscreen_entered |-> fail # "none",
          tty |-> Tty(renderer.tty.raw_mode /\ fail # "none",
                      renderer.tty.alternate_screen
                          /\ ~Succeeds(ExitSteps, "flush", fail)),
          call |-> "exit_fullscreen",
          result |-> IF fail = "none" THEN "Ok" ELSE fail,
          attempted |-> IF fail = "none" THEN ExitSteps
                        ELSE SubSeq(ExitSteps, 1, StepOrdinal(ExitSteps, fail))]

EnterFullscreen ==
    /\ \E fail \in IF fullscreen.fullscreen_entered THEN { "none" }
                    ELSE Range(EnterSteps) \cup { "none" } :
           fullscreen' = enter_fullscreen(fullscreen, fail)
    /\ UNCHANGED app
    /\ UNCHANGED <<listVars, loopVars, repoVars, classifyVars, auxVars>>

ExitFullscreen ==
    /\ \E fail \in IF fullscreen.fullscreen_entered
                    THEN Range(ExitSteps) \cup { "none" } ELSE { "none" } :
           fullscreen' = exit_fullscreen(fullscreen, fail)
    /\ UNCHANGED app
    /\ UNCHANGED <<listVars, loopVars, repoVars, classifyVars, auxVars>>

InitTerminal ==
    /\ TtyAtRest
    /\ AuxAtRest
    /\ ClassifyAtRest
    /\ changes = <<>>
    /\ ordering = EmptyMap
    /\ index_of_selected_change = 0
    /\ listed = {}
    /\ op = "not_constructed"
    /\ LoopAtRest
    /\ RepoAtRest

NextTerminal ==
    \/ RunFullscreenApplication
    \/ EnterFullscreen
    \/ ExitFullscreen

SpecTerminal == InitTerminal /\ [][NextTerminal]_vars

\* C29: however run_fullscreen_application returns, the four cleanup steps
\* were attempted, all of them and in order, whichever of them failed; the
\* failed ones were printed; and the function returned Ok if no step of
\* its body failed and the error of that step otherwise.
C29_CleanupAttemptedOnEveryReturn ==
    [][RunFullscreenApplication =>
          /\ app'.attempted = CleanupSteps
          /\ app'.result = IF app'.failed = "none" THEN "Ok" ELSE app'.failed
          /\ \A k \in 1..Len(app'.printed) : app'.printed[k] \in Range(CleanupSteps)
          /\ ("disable_raw_mode" \notin Range(app'.printed)) => ~app'.tty.raw_mode]_vars

\* C29 witness: rendering failed, leaving the alternate screen failed too,
\* and raw mode was disabled all the same; the function returned the error
\* of the rendering.
C29_Witness ==
    /\ app.result = "render"
    /\ app.printed = <<"leave_alternate_screen">>
    /\ app.attempted = CleanupSteps
    /\ ~app.tty.raw_mode

\* C30: when the renderer has put the terminal into raw mode, a call of
\* exit_fullscreen attempts to disable raw mode.
C30_ExitDisablesRawMode ==
    [][(ExitFullscreen /\ fullscreen.tty.raw_mode) =>
          "disable_raw_mode" \in Range(fullscreen'.attempted)]_vars

\* `path` is inside the directory `dir`
IsUnder(dir, path) ==
    Len(path) > Len(dir) /\ SubSeq(path, 1, Len(dir) + 1) = Append(dir, 47)

\* C35: stage_selected_change changes the index entry of no path other
\* than the selected one and the paths inside it; a sibling whose name only
\* starts with the name of the selected path keeps its entry.
C35_StageTouchesSelectedPathOnly ==
    [][(StageSelectedChange /\ changes # <<>>) =>
          \A path \in Range(RepoPaths) :
              LET selected == changes[index_of_selected_change + 1].path
              IN  (path # selected /\ ~IsUnder(selected, path)) =>
                      index'[path] = index[path]]_vars

\* C36: for an entry whose status has no index-side state, selected at
\* unstage_selected_change or listed at unstage_all_changes, Change::unstage
\* returns Ok, and the operation leaves the index entry of its path as it was.
C36_UnstageWithoutIndexStateIsNoOp ==
    [][\A i \in 1..Len(changes) :
          ( /\ changes[i].status.kind = "NonConflicting"
            /\ changes[i].status.index = 0
            /\ \/ UnstageSelectedChange /\ i = index_of_selected_change + 1
               \/ UnstageAllChanges )
          => /\ unstage(changes[i], index).ok
             /\ index'[changes[i].path] = index[changes[i].path]]_vars

\* C37: when stage_selected_change, unstage_selected_change or
\* unstage_all_changes returns the error of applying a change (it went
\* through no step), the index on durable storage, the listed changes and
\* the cursor are as before the operation.
C37_ApplyErrorWritesAndRescansNothing ==
    [][( /\ \/ StageSelectedChange
            \/ UnstageSelectedChange
            \/ UnstageAllChanges
         /\ last_op'.result = "Err"
         /\ last_op'.steps = <<>> )
       => /\ disk_index' = disk_index
          /\ changes' = changes
          /\ index_of_selected_change' = index_of_selected_change]_vars

\* C37 witness: unstage_all_changes has failed at its second change after
\* it had unstaged the first one: the index in memory differs from the one
\* on durable storage, which still has the staged change.
C37_Witness ==
    /\ last_op.name = "unstage_all_changes"
    /\ last_op.result = "Err"
    /\ last_op.steps = <<>>
    /\ last_op.failed_at = 2
    /\ index # disk_index
    /\ \E i \in 1..Len(changes) : changes[i].status.index # 0

\* C38: after refresh_changes the cursor is at the path it was at before,
\* if the list still has that path.
C38_CursorFollowsSelectedPath ==
    [][(RefreshChanges /\ changes # <<>>) =>
          LET selected == changes[index_of_selected_change + 1].path
          IN  selected \in PathsOf(changes') =>
                  changes'[index_of_selected_change' + 1].path = selected]_vars

(***************************************************************************)
(* The ChangeOrdering of change_ordering/mod.rs (specification SpecResort):*)
(* the ordering is seeded from a first scan, then sort_changes is called   *)
(* on later scans, and called again on the change set it has just sorted.  *)
(***************************************************************************)
InitResort ==
    /\ \E scan \in Scans(MaxSeedLen) :
           LET seeded == sort_changes_and_save_ordering_mod(scan)
           IN  /\ changes = seeded.changes
               /\ ordering = seeded.map
               /\ listed = PathsOf(scan)
    /\ index_of_selected_change = 0
    /\ op = "new"
    /\ resorted = NotResorted
    /\ auth = NoSession
    /\ LoopAtRest
    /\ RepoAtRest
    /\ ClassifyAtRest
    /\ TtyAtRest

\* sort_changes on the change set `given`
resort(given, calls) ==
    LET sorted == sort_changes_mod(ordering, given)
    IN  /\ changes' = sorted.changes
        /\ ordering' = sorted.map
        /\ listed' = listed \cup PathsOf(given)
        /\ resorted' = [given |-> given, returned |-> sorted.returned,
                        calls |-> calls]
        /\ op' = "sort_changes"
        /\ UNCHANGED index_of_selected_change
        /\ UNCHANGED <<loopVars, repoVars, classifyVars, ttyVars, auth>>

\* sort_changes on the changes of a new scan
SortChanges ==
    \E scan \in Scans(MaxScanLen) : resort(scan, 1)

\* sort_changes once more on the unchanged change set: the slice the call
\* before has sorted, or the same scan delivered again
SortChangesAgain ==
    /\ resorted.calls = 1
    /\ \E given \in { changes, resorted.given } : resort(given, 2)

NextResort ==
    \/ SortChanges
    \/ SortChangesAgain

SpecResort == InitResort /\ [][NextResort]_vars

\* C31: sort_changes returns the number of paths of the given change set
\* that had no position before the call.
C31_ReturnsCountOfNewPaths ==
    [][SortChanges =>
          resorted'.returned =
              Cardinality(PathsOf(resorted'.given) \ DOMAIN ordering)]_vars

\* C32: a second call of sort_changes on the unchanged change set leaves
\* the list in the order of the first call and returns zero.
C32_ResortIsIdempotent ==
    [][SortChangesAgain =>
          /\ changes' = changes
          /\ resorted'.returned = 0]_vars

(***************************************************************************)
(* with_authentication (specification SpecAuth): the credentials callback  *)
(* of the first authentication session.  libgit2 calls it with the         *)
(* credential types the remote allows; it answers with a credential or an  *)
(* error.  An error ends the session; a credential is accepted by the      *)
(* remote, or rejected, and then the callback is called again.             *)
(***************************************************************************)
MaxCallbackInvocations == 3

\* git2::CredentialType
CredentialTypes == { "USERNAME", "SSH_KEY", "USER_PASS_PLAINTEXT", "DEFAULT" }

\* the ways the callback gets a credential
Methods == { "ssh_agent", "cred_helper", "default" }

\* the locals of with_authentication before f is called, with the history
\* of the session: how often each method was handed out, how often the
\* callback was invoked, the types it was last asked for, its last answer
SessionOpened ==
    [open |-> TRUE,
     ssh_username_requested |-> FALSE,
     cred_helper_bad |-> "None",
     any_attempts |-> FALSE,
     tried_sshkey |-> FALSE,
     handed_out |-> [m \in Methods |-> 0],
     invocations |-> 0,
     allowed |-> {},
     answer |-> "none",
     res |-> "pending"]

\* the closure given to f: the session after it was called with the types
\* `allowed`; `made` says whether git2 could make the credential asked for
\* (Cred::ssh_key_from_agent, Cred::credential_helper, Cred::default)
credentials_callback(session, allowed, made) ==
    LET invoked == [session EXCEPT !.any_attempts = TRUE,
                                   !.invocations = @ + 1,
                                   !.allowed = allowed]
        answer == IF made THEN "Ok" ELSE "Err"
    IN  IF "USERNAME" \in allowed
        THEN [invoked EXCEPT !.ssh_username_requested = TRUE, !.answer = "Err"]
        ELSE IF "SSH_KEY" \in allowed /\ ~session.tried_sshkey
        THEN [invoked EXCEPT !.tried_sshkey = TRUE,
                             !.handed_out["ssh_agent"] = @ + 1,
                             !.answer = answer]
        ELSE IF "USER_PASS_PLAINTEXT" \in allowed /\ session.cred_helper_bad = "None"
        THEN [invoked EXCEPT !.cred_helper_bad = IF made THEN "Some(false)"
                                                 ELSE "Some(true)",
                             !.handed_out["cred_helper"] = @ + 1,
                             !.answer = answer]
        ELSE IF "DEFAULT" \in allowed
        THEN [invoked EXCEPT !.handed_out["default"] = @ + 1,
                             !.answer = answer]
        ELSE [invoked EXCEPT !.answer = "Err"]

InitAuth ==
    /\ auth = NoSession
    /\ resorted = NotResorted
    /\ ChangeListNew(<<>>)
    /\ LoopAtRest
    /\ RepoAtRest
    /\ ClassifyAtRest
    /\ TtyAtRest

\* with_authentication is called: the locals are set, f starts the session
WithAuthentication ==
    /\ ~auth.open
    /\ auth' = SessionOpened
    /\ UNCHANGED <<listVars, loopVars, repoVars, classifyVars, ttyVars, resorted>>

\* libgit2 asks for a credential: at the start of the session, and again
\* after the remote has rejected the credential it was given
CredentialsCallback ==
    /\ auth.open
    /\ auth.res = "pending"
    /\ auth.answer # "Err"
    /\ auth.invocations < MaxCallbackInvocations
    /\ \E allowed \in (SUBSET CredentialTypes) \ { {} } :
       \E made \in BOOLEAN :
           auth' = credentials_callback(auth, allowed, made)
    /\ UNCHANGED <<listVars, loopVars, repoVars, classifyVars, ttyVars, resorted>>

\* f returns: with the error of the callback, or because the remote has
\* accepted the credential, or with an error of its own
SessionReturns ==
    /\ auth.open
    /\ auth.res = "pending"
    /\ \E res \in IF auth.answer = "Ok" THEN { "Ok", "Err" } ELSE { "Err" } :
           auth' = [auth EXCEPT !.res = res]
    /\ UNCHANGED <<listVars, loopVars, repoVars, classifyVars, ttyVars, resorted>>

\* with_authentication returns
WithAuthenticationReturns ==
    /\ auth.open
    /\ auth.res # "pending"
    /\ auth' = NoSession
    /\ UNCHANGED <<listVars, loopVars, repoVars, classifyVars, ttyVars, resorted>>

NextAuth ==
    \/ WithAuthentication
    \/ CredentialsCallback
    \/ SessionReturns
    \/ WithAuthenticationReturns

SpecAuth == InitAuth /\ [][NextAuth]_vars

\* C40: within one session each method of authentication is handed out at
\* most once, however often the callback is invoked and whatever types are
\* allowed.
C40_EachMethodTriedOnce ==
    auth.open => \A m \in Methods : auth.handed_out[m] <= 1

(***************************************************************************)
(* C21: a failure in the middle of stage_all_changes or                    *)
(* unstage_all_changes.                                                    *)
(***************************************************************************)
\* the entry Change::unstage leaves in the index for a change it can unstage
Unstaged(change) ==
    IF is_index_new(change.status) THEN Absent ELSE HeadTree[change.path]

\* Change::unstage returns Ok for the change
Unstageable(change) ==
    is_index_new(change.status) \/ HeadTree[change.path] # Absent

\* C21: when stage_all_changes or unstage_all_changes returns the error of
\* the k-th entry, the entries before the k-th have their modification in
\* the index in memory and none of them was in error, the entries from
\* the k-th on have the index entry they had, and nothing was written.
C21_FailureLeavesIndexPartiallyModified ==
    [][/\ (UnstageAllChanges /\ last_op'.failed_at > 0) =>
            /\ last_op'.result = "Err"
            /\ last_op'.failed_at <= Len(changes)
            /\ \A i \in 1..Len(changes) :
                   IF i < last_op'.failed_at
                   THEN /\ Unstageable(changes[i])
                        /\ index'[changes[i].path] = Unstaged(changes[i])
                   ELSE index'[changes[i].path] = index[changes[i].path]
            /\ UNCHANGED <<disk_index, changes>>
       /\ (StageAllChanges /\ last_op'.failed_at > 0) =>
            /\ last_op'.result = "Err"
            /\ \A i \in 1..Len(RepoPaths) :
                   IF i < last_op'.failed_at
                   THEN index'[RepoPaths[i]] = worktree[RepoPaths[i]]
                   ELSE index'[RepoPaths[i]] = index[RepoPaths[i]]
            /\ UNCHANGED <<disk_index, changes>>]_vars

\* C21 witness: unstage_all_changes has failed at its second entry; the
\* first entry, which was staged, is unstaged in the index in memory and the
\* second is still staged.
C21_Witness ==
    /\ last_op.name = "unstage_all_changes"
    /\ last_op.result = "Err"
    /\ last_op.failed_at = 2
    /\ Len(changes) >= 2
    /\ changes[1].status.index # 0
    /\ changes[2].status.index # 0
    /\ index[changes[1].path] = Unstaged(changes[1])
    /\ index[changes[2].path] # Unstaged(changes[2])
    /\ index # disk_index

\* C22: stage_selected_change and unstage_selected_change on an empty list
\* return Ok without a step: the index in memory, the index on durable
\* storage, the changes, their ordering and the cursor stay as they are.
C22_EmptyListIsNoOp ==
    [][((StageSelectedChange \/ UnstageSelectedChange) /\ changes = <<>>) =>
          /\ last_op'.result = "Ok"
          /\ last_op'.steps = <<>>
          /\ UNCHANGED <<index, disk_index, listVars>>]_vars

\* C22 witness: unstage_selected_change has returned from an empty list
\* of a session that had changes before.
C22_Witness ==
    /\ last_op.name = "unstage_selected_change"
    /\ last_op.result = "Ok"
    /\ last_op.steps = <<>>
    /\ changes = <<>>
    /\ HasChangesAtStart

\* C20 witness: stage_all_changes has returned Ok after all three steps:
\* the index holds what was staged, it is written, and the list shows the
\* staged entries.
C20_Witness ==
    /\ last_op.name = "stage_all_changes"
    /\ last_op.steps = <<"modify", "write", "refresh">>
    /\ index # HeadTree
    /\ disk_index = index
    /\ changes # <<>>
    /\ \A i \in 1..Len(changes) : changes[i].status.worktree = 0

====
